---- MODULE Spec2Model ----
(***************************************************************************)
(* Model of the food-delivery spend analyser:                              *)
(*   gmail_pdfs/extract_food_delivery_data.py  (extract_order_data,        *)
(*       process_all_pdfs, the __main__ sort, analyze_data)                *)
(*   parse_invoices.py                         (extract_invoice_data)      *)
(* Text is a sequence of one-character strings; the regular expressions    *)
(* of the source are pattern values run by a backtracking matcher that     *)
(* follows Python's re semantics (leftmost match, alternatives in order,   *)
(* greedy and lazy repetition).                                            *)
(***************************************************************************)
EXTENDS Integers, Sequences, FiniteSets, TLC

\* Python's None for an optional string: a sequence no text is equal to
None == <<"None">>
NL == "\n"
Rupee == "₹"

(***************************************************************************)
(* Characters and string helpers (Python str methods)                      *)
(***************************************************************************)
UpperSeq == <<"A","B","C","D","E","F","G","H","I","J","K","L","M",
              "N","O","P","Q","R","S","T","U","V","W","X","Y","Z">>
LowerSeq == <<"a","b","c","d","e","f","g","h","i","j","k","l","m",
              "n","o","p","q","r","s","t","u","v","w","x","y","z">>
DigitSeq == <<"0","1","2","3","4","5","6","7","8","9">>
UpperSet == {UpperSeq[k] : k \in DOMAIN UpperSeq}
LowerSet == {LowerSeq[k] : k \in DOMAIN LowerSeq}
DigitSet == {DigitSeq[k] : k \in DOMAIN DigitSeq}
SpaceSet == {" ", NL, "\t"}
WordSet == UpperSet \cup LowerSet \cup DigitSet \cup {"_"}

LowerMap == [c \in UpperSet |-> LowerSeq[CHOOSE k \in DOMAIN UpperSeq : UpperSeq[k] = c]]
DigitMap == [c \in DigitSet |-> (CHOOSE k \in DOMAIN DigitSeq : DigitSeq[k] = c) - 1]

\* str.lower() on one character and on a string
LowerChar(c) == IF c \in UpperSet THEN LowerMap[c] ELSE c
Lower(s) == [k \in DOMAIN s |-> LowerChar(s[k])]

\* `sub in s`
Contains(s, sub) ==
    \E k \in 1..(Len(s) - Len(sub) + 1) : SubSeq(s, k, k + Len(sub) - 1) = sub

\* str.endswith
EndsWith(s, suf) ==
    Len(s) >= Len(suf) /\ SubSeq(s, Len(s) - Len(suf) + 1, Len(s)) = suf

\* str.strip(): leading and trailing whitespace removed
RECURSIVE LeadingSpaces(_, _)
LeadingSpaces(s, i) ==
    IF i <= Len(s) /\ s[i] \in SpaceSet THEN 1 + LeadingSpaces(s, i + 1) ELSE 0
RECURSIVE TrailingSpaces(_, _)
TrailingSpaces(s, i) ==
    IF i >= 1 /\ s[i] \in SpaceSet THEN 1 + TrailingSpaces(s, i - 1) ELSE 0
Strip(s) == SubSeq(s, 1 + LeadingSpaces(s, 1), Len(s) - TrailingSpaces(s, Len(s)))

\* str.replace(c, ''): every occurrence of the character removed
RemoveChar(s, c) == SelectSeq(s, LAMBDA d : d # c)

\* str.split(sep) for a one-character separator: always at least one piece
Split(s, sep) ==
    LET seps == {k \in DOMAIN s : s[k] = sep}
        \* the position of the j-th separator; 0 and Len(s) + 1 bracket the text
        at(j) == IF j = 0 THEN 0
                 ELSE IF j > Cardinality(seps) THEN Len(s) + 1
                 ELSE CHOOSE k \in seps : Cardinality({q \in seps : q < k}) = j - 1
    IN [j \in 1..(Cardinality(seps) + 1) |-> SubSeq(s, at(j - 1) + 1, at(j) - 1)]

\* ord(c) for the characters of the model's texts
Ord(c) ==
    IF c \in DigitSet THEN 48 + DigitMap[c]
    ELSE IF c \in UpperSet THEN 64 + (CHOOSE k \in DOMAIN UpperSeq : UpperSeq[k] = c)
    ELSE IF c \in LowerSet THEN 96 + (CHOOSE k \in DOMAIN LowerSeq : LowerSeq[k] = c)
    ELSE CASE c = NL -> 10 [] c = "\t" -> 9 [] c = " " -> 32 [] c = "'" -> 39
           [] c = "(" -> 40 [] c = ")" -> 41 [] c = "," -> 44 [] c = "-" -> 45
           [] c = "." -> 46 [] c = "/" -> 47 [] c = ":" -> 58 [] c = "_" -> 95
           [] c = Rupee -> 8377

\* a < b in Python's string order (by code point, a proper prefix first)
RECURSIVE StrLess(_, _)
StrLess(a, b) ==
    IF b = <<>> THEN FALSE
    ELSE IF a = <<>> THEN TRUE
    ELSE IF Head(a) = Head(b) THEN StrLess(Tail(a), Tail(b))
    ELSE Ord(Head(a)) < Ord(Head(b))

(***************************************************************************)
(* Regular expressions (Python re)                                         *)
(* A pattern is a sequence of nodes:                                       *)
(*   set : one character in (neg = FALSE) or not in (neg = TRUE) cs        *)
(*   str : the characters of a literal text                                *)
(*   rep : lo..hi characters of a set, greedy or lazy (hi = 0: unbounded)  *)
(*   alt : the first alternative (each a pattern) that lets the rest match *)
(*   gs/ge : start and end of capture group n                              *)
(*   bol : ^ (start of text; with MULTILINE also after a newline)          *)
(***************************************************************************)
Ch(c) == [t |-> "set", cs |-> {c}, neg |-> FALSE]
OneOf(cs) == [t |-> "set", cs |-> cs, neg |-> FALSE]
NoneOf(cs) == [t |-> "set", cs |-> cs, neg |-> TRUE]
Rep(set, lo, hi, greedy) ==
    [t |-> "rep", cs |-> set.cs, neg |-> set.neg, lo |-> lo, hi |-> hi, greedy |-> greedy]
Star(set) == Rep(set, 0, 0, TRUE)
Plus(set) == Rep(set, 1, 0, TRUE)
Opt(set) == Rep(set, 0, 1, TRUE)
LazyPlus(set) == Rep(set, 1, 0, FALSE)
LazyStar(set) == Rep(set, 0, 0, FALSE)
Alt(alts) == [t |-> "alt", alts |-> alts]
Bol == [t |-> "bol"]
Str(s) == <<[t |-> "str", s |-> s]>>
Grp(n, rs) == <<[t |-> "gs", n |-> n]>> \o rs \o <<[t |-> "ge", n |-> n]>>

NGroups == 4
NoGroups == [n \in 1..NGroups |-> <<0, 0>>]
NoMatch == [ok |-> FALSE, start |-> 0, end |-> 0, g |-> NoGroups]

\* flags: ic = re.IGNORECASE, ml = re.MULTILINE
Flags(ic, ml) == [ic |-> ic, ml |-> ml]

InSet(c, r, ic) ==
    LET hit == c \in r.cs \/ (ic /\ \E d \in r.cs : LowerChar(d) = LowerChar(c))
    IN hit # r.neg

\* how many consecutive characters from position i are in the set of r
Run(r, s, i, ic) ==
    LET stop == CHOOSE j \in i..(Len(s) + 1) :
                    /\ j = Len(s) + 1 \/ ~InSet(s[j], r, ic)
                    /\ \A q \in i..(j - 1) : InSet(s[q], r, ic)
    IN stop - i

\* the literal text lit at position i of s
LiteralAt(lit, s, i, ic) ==
    /\ i + Len(lit) - 1 <= Len(s)
    /\ \A k \in DOMAIN lit :
          s[i + k - 1] = lit[k] \/ (ic /\ LowerChar(s[i + k - 1]) = LowerChar(lit[k]))

RECURSIVE Match(_, _, _, _, _)
RECURSIVE TryAlt(_, _, _, _, _, _, _)

\* of the tries (a key k and the match m it gives), the successful one that is
\* tried first: the one of the largest key (greedy) or of the smallest
BestTry(tries, greedy) ==
    LET hits == {t \in tries : t.m.ok}
    IN IF hits = {} THEN [k |-> 0, m |-> NoMatch]
       ELSE IF greedy THEN CHOOSE t \in hits : \A t2 \in hits : t.k >= t2.k
       ELSE CHOOSE t \in hits : \A t2 \in hits : t.k <= t2.k

\* the alternatives from the k-th on, each followed by the rest
TryAlt(alts, k, rest, s, i, g, f) ==
    IF k > Len(alts) THEN NoMatch
    ELSE LET m == Match(alts[k] \o rest, s, i, g, f)
         IN IF m.ok THEN m ELSE TryAlt(alts, k + 1, rest, s, i, g, f)

\* the most characters the repetition r can take from position i
RepTop(r, run) == IF r.hi > 0 /\ r.hi < run THEN r.hi ELSE run

\* pattern rs from position i of s, with the groups g captured so far
Match(rs, s, i, g, f) ==
    IF Len(rs) = 0 THEN [ok |-> TRUE, start |-> 0, end |-> i, g |-> g]
    ELSE LET r == Head(rs)
             rest == Tail(rs)
         IN CASE r.t = "str" ->
                    IF LiteralAt(r.s, s, i, f.ic)
                    THEN Match(rest, s, i + Len(r.s), g, f) ELSE NoMatch
              [] r.t = "set" ->
                    IF i <= Len(s) /\ InSet(s[i], r, f.ic)
                    THEN Match(rest, s, i + 1, g, f) ELSE NoMatch
              [] r.t = "rep" ->
                    BestTry({[k |-> k, m |-> Match(rest, s, i + k, g, f)] :
                                k \in r.lo..RepTop(r, Run(r, s, i, f.ic))}, r.greedy).m
              [] r.t = "alt" -> TryAlt(r.alts, 1, rest, s, i, g, f)
              [] r.t = "gs" -> Match(rest, s, i, [g EXCEPT ![r.n] = <<i, 0>>], f)
              [] r.t = "ge" -> Match(rest, s, i, [g EXCEPT ![r.n] = <<g[r.n][1], i>>], f)
              [] r.t = "bol" ->
                    IF i = 1 \/ (f.ml /\ s[i - 1] = NL)
                    THEN Match(rest, s, i, g, f) ELSE NoMatch

\* re.match(pattern, s, flags): at the start of s only
ReMatch(rs, s, f) == Match(rs, s, 1, NoGroups, f)

\* the match of a try, with the position it starts at
MatchAt(try) == [try.m EXCEPT !.start = try.k]

\* re.search(pattern, s, flags) from position p on: the leftmost position
\* where the pattern matches
SearchFrom(rs, s, p, f) ==
    MatchAt(BestTry({[k |-> q, m |-> Match(rs, s, q, NoGroups, f)] : q \in p..(Len(s) + 1)},
                    FALSE))
ReSearch(rs, s, f) == SearchFrom(rs, s, 1, f)

\* match.group(n)
Group(m, s, n) == SubSeq(s, m.g[n][1], m.g[n][2] - 1)

\* re.sub(pattern, '', s): every non-overlapping match removed
RECURSIVE SubFrom(_, _, _, _)
RECURSIVE SubMatch(_, _, _, _, _)
SubMatch(m, rs, s, p, f) ==
    IF ~m.ok THEN SubSeq(s, p, Len(s))
    ELSE IF m.end = m.start
         THEN SubSeq(s, p, m.start) \o SubFrom(rs, s, m.start + 1, f)
         ELSE SubSeq(s, p, m.start - 1) \o SubFrom(rs, s, m.end, f)
SubFrom(rs, s, p, f) == SubMatch(SearchFrom(rs, s, p, f), rs, s, p, f)
ReSubEmpty(rs, s, f) == SubFrom(rs, s, 1, f)

(***************************************************************************)
(* Decimal numbers: n / 10^e, e as small as possible. They stand for the   *)
(* floats that float() makes of the amounts of the texts.                  *)
(***************************************************************************)
RECURSIVE Pow10(_)
Pow10(e) == IF e = 0 THEN 1 ELSE 10 * Pow10(e - 1)

RECURSIVE CanonDec(_)
CanonDec(d) ==
    IF d.e > 0 /\ d.n % 10 = 0 THEN CanonDec([n |-> d.n \div 10, e |-> d.e - 1]) ELSE d

RECURSIVE DigitsVal(_)
DigitsVal(s) ==
    IF s = <<>> THEN 0 ELSE 10 * DigitsVal(SubSeq(s, 1, Len(s) - 1)) + DigitMap[s[Len(s)]]

Dec(n) == [n |-> n, e |-> 0]
AddDec(a, b) ==
    LET e == IF a.e > b.e THEN a.e ELSE b.e
    IN CanonDec([n |-> a.n * Pow10(e - a.e) + b.n * Pow10(e - b.e), e |-> e])
\* a > k, a < b for decimals
DecGreater(a, k) == a.n > k * Pow10(a.e)
DecLess(a, b) == a.n * Pow10(b.e) < b.n * Pow10(a.e)

\* None for an optional number
NoTotal == [n |-> -1, e |-> 0]

\* float(s) for s of the shape digits, optional point, digits (what the amount
\* patterns capture once the commas are removed); ok = FALSE is ValueError
ParseFloat(s) ==
    LET parts == Split(s, ".")
        whole == parts[1]
        frac == IF Len(parts) > 1 THEN parts[2] ELSE <<>>
    IN IF Len(parts) > 2 \/ Len(whole) + Len(frac) = 0
          \/ \E k \in DOMAIN s : s[k] \notin DigitSet \cup {"."}
       THEN [ok |-> FALSE, val |-> NoTotal]
       ELSE [ok |-> TRUE,
             val |-> CanonDec([n |-> DigitsVal(whole \o frac), e |-> Len(frac)])]

(***************************************************************************)
(* datetime.strptime(s, fmt).strftime("%Y-%m-%d")                          *)
(* _strptime turns the format into a regular expression (each blank of the *)
(* format becomes \s+), matches it ignoring case at the start of s, and    *)
(* raises ValueError when no match or text remains, or the day is not one  *)
(* of the month.                                                           *)
(***************************************************************************)
MonthsFull == <<<<"j","a","n","u","a","r","y">>, <<"f","e","b","r","u","a","r","y">>, <<"m","a","r","c","h">>, <<"a","p","r","i","l">>, <<"m","a","y">>, <<"j","u","n","e">>,
                <<"j","u","l","y">>, <<"a","u","g","u","s","t">>, <<"s","e","p","t","e","m","b","e","r">>, <<"o","c","t","o","b","e","r">>, <<"n","o","v","e","m","b","e","r">>,
                <<"d","e","c","e","m","b","e","r">>>>
MonthsAbbr == [k \in 1..12 |-> SubSeq(MonthsFull[k], 1, 3)]

Sp == OneOf(SpaceSet)
Dg == OneOf(DigitSet)
D19 == OneOf(DigitSet \ {"0"})

\* %d %B|%b %Y %I:%M %p
StrptimeRe(months) ==
    Grp(1, <<Alt(<< <<Ch("3"), OneOf({"0", "1"})>>, <<OneOf({"1", "2"}), Dg>>,
                   <<Ch("0"), D19>>, <<D19>>, <<Ch(" "), D19>> >>)>>)
    \o <<Plus(Sp)>>
    \o Grp(2, <<Alt([k \in 1..12 |-> Str(months[k])])>>)
    \o <<Plus(Sp)>>
    \o Grp(3, <<Dg, Dg, Dg, Dg>>)
    \o <<Plus(Sp)>>
    \o <<Alt(<< <<Ch("1"), OneOf({"0", "1", "2"})>>, <<Ch("0"), D19>>, <<D19>> >>)>>
    \o <<Ch(":")>>
    \o <<Alt(<< <<OneOf({"0", "1", "2", "3", "4", "5"}), Dg>>, <<Dg>> >>)>>
    \o <<Plus(Sp)>>
    \o <<Alt(<<Str(<<"a","m">>), Str(<<"p","m">>)>>)>>

IsLeap(y) == y % 4 = 0 /\ (y % 100 # 0 \/ y % 400 = 0)
DaysInMonth(y, m) ==
    IF m = 2 THEN (IF IsLeap(y) THEN 29 ELSE 28)
    ELSE IF m \in {4, 6, 9, 11} THEN 30 ELSE 31

\* an integer as decimal digits, at least `width` of them (zero padded)
RECURSIVE NatStr(_, _)
NatStr(n, width) ==
    IF n < 10 /\ width <= 1 THEN <<DigitSeq[n + 1]>>
    ELSE NatStr(n \div 10, width - 1) \o <<DigitSeq[(n % 10) + 1]>>

\* what strptime makes of the match `found` of the format's expression on s:
\* ok = FALSE is ValueError; str is the date as %Y-%m-%d (glibc's %Y does not
\* pad the year)
StrptimeFound(found, s, months) ==
    LET day == DigitsVal(Strip(Group(found, s, 1)))
        mon == CHOOSE k \in 1..12 : months[k] = Lower(Group(found, s, 2))
        year == DigitsVal(Group(found, s, 3))
    IN IF ~found.ok \/ found.end # Len(s) + 1 THEN [ok |-> FALSE, str |-> <<>>]
       ELSE IF year < 1 \/ day > DaysInMonth(year, mon) THEN [ok |-> FALSE, str |-> <<>>]
       ELSE [ok |-> TRUE,
             str |-> NatStr(year, 1) \o <<"-">> \o NatStr(mon, 2) \o <<"-">> \o NatStr(day, 2)]
StrptimeDate(s, months) ==
    StrptimeFound(ReMatch(StrptimeRe(months), s, Flags(TRUE, FALSE)), s, months)

(***************************************************************************)
(* extract_order_data (gmail_pdfs/extract_food_delivery_data.py)           *)
(***************************************************************************)
\* [\d,]+\.?\d*
AmountRe == <<Plus(OneOf(DigitSet \cup {","})), Opt(Ch(".")), Star(Dg)>>

\* r'Order ID:\s*(\d+)'
OrderIdRe == Str(<<"O","r","d","e","r"," ","I","D",":">>) \o <<Star(Sp)>> \o Grp(1, <<Plus(Dg)>>)

\* r'Order Time:\s*(\d+\s+\w+\s+\d{4}[,\s]+\d+:\d+\s*(?:AM|PM))'
OrderTimeRe ==
    Str(<<"O","r","d","e","r"," ","T","i","m","e",":">>) \o <<Star(Sp)>>
    \o Grp(1, <<Plus(Dg), Plus(Sp), Plus(OneOf(WordSet)), Plus(Sp), Rep(Dg, 4, 4, TRUE),
                Plus(OneOf(SpaceSet \cup {","})), Plus(Dg), Ch(":"), Plus(Dg), Star(Sp),
                Alt(<<Str(<<"A","M">>), Str(<<"P","M">>)>>)>>)

\* r'Restaurant Name:\s*([^\n]+)'
RestaurantNameRe == Str(<<"R","e","s","t","a","u","r","a","n","t"," ","N","a","m","e",":">>) \o <<Star(Sp)>> \o Grp(1, <<Plus(NoneOf({NL}))>>)

\* r'^([^₹]+?)\s+(\d+)\s+₹\s*([\d,]+\.?\d*)\s+₹\s*([\d,]+\.?\d*)'
ItemRe ==
    <<Bol>> \o Grp(1, <<LazyPlus(NoneOf({Rupee}))>>) \o <<Plus(Sp)>> \o Grp(2, <<Plus(Dg)>>)
    \o <<Plus(Sp), Ch(Rupee), Star(Sp)>> \o Grp(3, AmountRe)
    \o <<Plus(Sp), Ch(Rupee), Star(Sp)>> \o Grp(4, AmountRe)

\* total_patterns
TotalPatterns ==
    << <<Bol>> \o Str(<<"T","o","t","a","l">>) \o <<Plus(Sp), Ch(Rupee), Star(Sp)>> \o Grp(1, AmountRe),
       <<Bol>> \o Str(<<"T","o","t","a","l">>) \o <<Star(Sp), Ch(":"), Star(Sp), Ch(Rupee), Star(Sp)>>
          \o Grp(1, AmountRe),
       <<Bol>> \o Str(<<"T","o","t","a","l">>) \o <<Star(Sp), Ch(Rupee), Star(Sp)>> \o Grp(1, AmountRe) >>

\* r'₹\s*([\d,]+\.?\d*)'
PriceRe == <<Ch(Rupee), Star(Sp)>> \o Grp(1, AmountRe)

\* the plausibility threshold of a total
MinTotal == 20

\* lines 41-51: the captured date text with its commas removed, under the full
\* month format, then the abbreviated one; the captured text when both raise
DateOfFormats(date_str, full, abbr) ==
    IF full.ok THEN full.str ELSE IF abbr.ok THEN abbr.str ELSE date_str
NormalizeDate(date_str) ==
    DateOfFormats(date_str, StrptimeDate(RemoveChar(date_str, ","), MonthsFull),
                            StrptimeDate(RemoveChar(date_str, ","), MonthsAbbr))

\* group 1 of a match, None without a match
GroupOrNone(m, s) == IF m.ok THEN Group(m, s, 1) ELSE None
\* f(x) of an optional text
NoneOr(s, f(_)) == IF s = None THEN None ELSE f(s)

\* lines 39-51
ExtractDate(text) ==
    NoneOr(GroupOrNone(ReSearch(OrderTimeRe, text, Flags(FALSE, FALSE)), text), NormalizeDate)

\* lines 54-56
ExtractRestaurantName(text) ==
    NoneOr(GroupOrNone(ReSearch(RestaurantNameRe, text, Flags(FALSE, FALSE)), text), Strip)

\* lines 34-36
ExtractOrderId(text) ==
    GroupOrNone(ReSearch(OrderIdRe, text, Flags(FALSE, FALSE)), text)

\* line 66: the line that opens the items section
IsItemsHeader(line) ==
    Contains(line, <<"I","t","e","m">>) /\ Contains(line, <<"Q","u","a","n","t","i","t","y">>) /\ Contains(line, <<"P","r","i","c","e">>)

\* line 73: the "Total Price" column header inside the section
IsTotalPriceHeader(line) ==
    Contains(Lower(line), <<"t","o","t","a","l"," ","p","r","i","c","e">>)
    /\ (Contains(Lower(line), <<"q","u","a","n","t","i","t","y">>) \/ Contains(Lower(line), <<"u","n","i","t">>))

\* lines 75 and 78: the lines that close the items section
ChargeKeywords == {<<"t","a","x","e","s">>, <<"p","a","c","k","a","g","i","n","g">>, <<"d","e","l","i","v","e","r","y">>, <<"p","l","a","t","f","o","r","m">>, <<"r","o","u","n","d"," ","o","f","f">>}
TermsKeywords == {<<"t","e","r","m","s">>, <<"c","o","n","d","i","t","i","o","n","s">>}
IsTrailer(line) ==
    \E keyword \in ChargeKeywords \cup TermsKeywords : Contains(Lower(line), keyword)

\* the entry with the unit price (group 3) in the place of the line total: a
\* faulty variant of ItemEntry
ItemEntryUnitPrice(line, item_match) ==
    Strip(Group(item_match, line, 1)) \o <<" ","(","Q","t","y",":"," ">> \o Group(item_match, line, 2)
    \o <<","," ",Rupee>> \o RemoveChar(Group(item_match, line, 3), ",") \o <<")">>

\* line 91: f"{item_name} (Qty: {quantity}, ₹{total_price})"
ItemEntry(line, item_match) ==
    Strip(Group(item_match, line, 1)) \o <<" ","(","Q","t","y",":"," ">> \o Group(item_match, line, 2)
    \o <<","," ",Rupee>> \o RemoveChar(Group(item_match, line, 4), ",") \o <<")">>

\* lines 66-80: the flag items_section after a line
SectionAfter(line, items_section) ==
    IF IsItemsHeader(line) THEN TRUE
    ELSE IF ~items_section THEN FALSE
    ELSE IF IsTotalPriceHeader(line) THEN TRUE
    ELSE IF IsTrailer(line) THEN FALSE
    ELSE TRUE

\* lines 66-83: the line reaches the item pattern
ReachesItemPattern(line, items_section) ==
    /\ ~IsItemsHeader(line)
    /\ items_section
    /\ ~IsTotalPriceHeader(line)
    /\ ~IsTrailer(line)
    /\ Strip(line) # <<>>

\* lines 86-91: the entry of line k when the item pattern matches it
ItemOfMatch(line, k, item_match) ==
    IF item_match.ok THEN <<[line |-> k, entry |-> ItemEntry(line, item_match)]>> ELSE <<>>

\* lines 64-91: the table scan from line k on, items_section being the flag on
\* entry; the result lists each captured line's number with its entry
RECURSIVE TableScan(_, _, _)
TableScan(lines, k, items_section) ==
    IF k > Len(lines) THEN <<>>
    ELSE (IF ReachesItemPattern(lines[k], items_section)
          THEN ItemOfMatch(lines[k], k, ReMatch(ItemRe, lines[k], Flags(FALSE, FALSE)))
          ELSE <<>>)
         \o TableScan(lines, k + 1, SectionAfter(lines[k], items_section))

\* line 97: the words that rule a line out of the fallback tier
NonItemKeywords == {<<"t","a","x">>, <<"d","e","l","i","v","e","r","y">>, <<"p","l","a","t","f","o","r","m">>, <<"p","a","c","k","a","g","i","n","g">>, <<"t","o","t","a","l">>, <<"f","r","e","e">>}

\* lines 97-105: the fallback entry f"{item_name} (₹{price})" of line k: it
\* has a currency marker, none of the keywords and more than 3 characters
\* before the first marker
FallbackOfMatch(line, k, price_match) ==
    LET item_parts == Split(line, Rupee)
        item_name == Strip(item_parts[1])
    IN IF Contains(line, <<Rupee>>)
          /\ (\A keyword \in NonItemKeywords : ~Contains(Lower(line), keyword))
          /\ Len(item_parts) >= 2
          /\ Len(item_name) > 3
          /\ price_match.ok
       THEN <<[line |-> k,
               entry |-> item_name \o <<" ","(",Rupee>> \o Group(price_match, line, 1) \o <<")">>]>>
       ELSE <<>>

\* lines 96-105: the fallback tier from line k on
RECURSIVE FallbackScan(_, _)
FallbackScan(lines, k) ==
    IF k > Len(lines) THEN <<>>
    ELSE FallbackOfMatch(lines[k], k, ReSearch(PriceRe, lines[k], Flags(FALSE, FALSE)))
         \o FallbackScan(lines, k + 1)

\* the entries of both tiers: a faulty variant of OrList
BothLists(a, b) == a \o b

\* line 94: the second list when the first is empty
OrList(a, b) == IF a = <<>> THEN b ELSE a

\* lines 58-107: the table scan, and the fallback tier when it captured nothing
ExtractItems(lines) == OrList(TableScan(lines, 1, FALSE), FallbackScan(lines, 1))

\* lines 128-134: the float of the text, taken when above the threshold
PlausibleTotal(total_value) ==
    IF total_value.ok /\ DecGreater(total_value.val, MinTotal) THEN total_value.val ELSE NoTotal

\* lines 125-134 and 142-150: the total a match of a total pattern gives
TotalOfMatch(total_match, s) ==
    IF total_match.ok
    THEN PlausibleTotal(ParseFloat(RemoveChar(Group(total_match, s, 1), ",")))
    ELSE NoTotal

\* the first total found, then the next candidate
OrTotal(a, b) == IF a # NoTotal THEN a ELSE b

\* lines 123-134: the patterns, in order from p on, on one stripped line: the
\* first amount above the threshold, NoTotal when there is none
RECURSIVE TotalOfLine(_, _)
TotalOfLine(line_clean, p) ==
    IF p > Len(TotalPatterns) THEN NoTotal
    ELSE OrTotal(TotalOfMatch(ReMatch(TotalPatterns[p], line_clean, Flags(TRUE, FALSE)), line_clean),
                 TotalOfLine(line_clean, p + 1))

\* the scan from the first line down, which takes the topmost total: a faulty
\* variant of BottomUpTotal
RECURSIVE TopDownFrom(_, _)
TopDownFrom(lines, j) ==
    IF j > Len(lines) THEN NoTotal
    ELSE OrTotal(IF Strip(lines[j]) = <<>> THEN NoTotal ELSE TotalOfLine(Strip(lines[j]), 1),
                 TopDownFrom(lines, j + 1))
TopDownTotal(lines, k) == TopDownFrom(lines, 1)

\* lines 118-136: the lines from line k up to the first one; blank lines are
\* skipped
RECURSIVE BottomUpTotal(_, _)
BottomUpTotal(lines, k) ==
    IF k = 0 THEN NoTotal
    ELSE OrTotal(IF Strip(lines[k]) = <<>> THEN NoTotal ELSE TotalOfLine(Strip(lines[k]), 1),
                 BottomUpTotal(lines, k - 1))

\* lines 139-150: the broader search, each pattern searched in the whole text
RECURSIVE BroaderTotal(_, _)
BroaderTotal(text, p) ==
    IF p > Len(TotalPatterns) THEN NoTotal
    ELSE OrTotal(TotalOfMatch(ReSearch(TotalPatterns[p], text, Flags(TRUE, TRUE)), text),
                 BroaderTotal(text, p + 1))

\* lines 109-150
ExtractTotal(text, lines) == OrTotal(BottomUpTotal(lines, Len(lines)), BroaderTotal(text, 1))

\* lines 24-31: the record, with what was captured for its items
OrderData(order_id, date, restaurant_name, captured, total, file_name) ==
    [order_id |-> order_id,
     date |-> date,
     restaurant_name |-> restaurant_name,
     items |-> [k \in DOMAIN captured |-> captured[k].entry],
     item_lines |-> [k \in DOMAIN captured |-> captured[k].line],
     total |-> total,
     file_name |-> file_name]

\* lines 24-150: the record of one text
ParseOrderFields(text, file_name) ==
    OrderData(ExtractOrderId(text), ExtractDate(text), ExtractRestaurantName(text),
              ExtractItems(Split(text, NL)), ExtractTotal(text, Split(text, NL)), file_name)

(***************************************************************************)
(* extract_invoice_data (parse_invoices.py)                                *)
(***************************************************************************)
\* (?:Jan|Feb|Mar|Apr|May|Jun|Jul|Aug|Sep|Oct|Nov|Dec)[a-z]*
MonthWordRe ==
    <<Alt(<<Str(<<"J","a","n">>), Str(<<"F","e","b">>), Str(<<"M","a","r">>), Str(<<"A","p","r">>), Str(<<"M","a","y">>), Str(<<"J","u","n">>),
            Str(<<"J","u","l">>), Str(<<"A","u","g">>), Str(<<"S","e","p">>), Str(<<"O","c","t">>), Str(<<"N","o","v">>), Str(<<"D","e","c">>)>>),
      Star(OneOf(LowerSet))>>

\* \d{1,2}\s+(?:Jan|...|Dec)[a-z]*\s+\d{4}
LongDateRe == <<Rep(Dg, 1, 2, TRUE), Plus(Sp)>> \o MonthWordRe \o <<Plus(Sp), Rep(Dg, 4, 4, TRUE)>>

\* date_patterns
DatePatterns ==
    << Str(<<"O","r","d","e","r"," ","T","i","m","e",":">>) \o <<Star(Sp)>> \o Grp(1, LongDateRe),
       Grp(1, LongDateRe),
       Grp(1, <<Rep(Dg, 1, 2, TRUE), OneOf({"/", "-"}), Rep(Dg, 1, 2, TRUE), OneOf({"/", "-"}),
                Rep(Dg, 4, 4, TRUE)>>) >>

\* restaurant_patterns
RestaurantPatterns ==
    << Str(<<"R","e","s","t","a","u","r","a","n","t"," ","N","a","m","e",":">>) \o <<Star(Sp)>> \o Grp(1, <<Plus(NoneOf({NL}))>>),
       Str(<<"O","r","d","e","r","e","d"," ","f","r","o","m">>) \o <<Plus(OneOf(SpaceSet \cup {":"}))>> \o Grp(1, <<Plus(NoneOf({NL}))>>),
       Str(<<"D","e","l","i","v","e","r","y"," ","f","r","o","m">>) \o <<Plus(OneOf(SpaceSet \cup {":"}))>> \o Grp(1, <<Plus(NoneOf({NL}))>>) >>

\* r'\s*\(.*?\)\s*'
ParenthesesRe == <<Star(Sp), Ch("("), LazyStar(NoneOf({NL})), Ch(")"), Star(Sp)>>

\* [\d,]+\.?\d{0,2}
Amount2Re == <<Plus(OneOf(DigitSet \cup {","})), Opt(Ch(".")), Rep(Dg, 0, 2, TRUE)>>

\* total_patterns of extract_invoice_data
InvoiceTotalPatterns ==
    << <<Alt(<< <<Bol>>, <<Ch(NL)>> >>), Star(Sp)>> \o Str(<<"T","o","t","a","l">>)
          \o <<Plus(Sp), Opt(Ch(Rupee))>> \o Grp(1, Amount2Re),
       Str(<<"T","o","t","a","l",":">>) \o <<Star(Sp), Opt(Ch(Rupee))>> \o Grp(1, Amount2Re) >>

\* r'^([A-Z][^\n\d]+?)\s+(\d+)\s+₹([\d,]+)\s+₹([\d,]+)'
InvoiceItemRe ==
    <<Bol>> \o Grp(1, <<OneOf(UpperSet), LazyPlus(NoneOf(DigitSet \cup {NL}))>>)
    \o <<Plus(Sp)>> \o Grp(2, <<Plus(Dg)>>)
    \o <<Plus(Sp), Ch(Rupee)>> \o Grp(3, <<Plus(OneOf(DigitSet \cup {","}))>>)
    \o <<Plus(Sp), Ch(Rupee)>> \o Grp(4, <<Plus(OneOf(DigitSet \cup {","}))>>)

\* the longest merchant name kept
MaxRestaurantLen == 100
\* the most items kept
MaxInvoiceItems == 10

\* the last pattern of the list that matches: a faulty variant of FirstPattern
RECURSIVE LastPatternFrom(_, _, _, _)
LastMatch(match, patterns, text, p, f) ==
    IF match.ok THEN [p |-> p, m |-> match] ELSE LastPatternFrom(patterns, text, p - 1, f)
LastPatternFrom(patterns, text, p, f) ==
    IF p = 0 THEN [p |-> 0, m |-> NoMatch]
    ELSE LastMatch(ReSearch(patterns[p], text, f), patterns, text, p, f)
LastPattern(patterns, text, p, f) == LastPatternFrom(patterns, text, Len(patterns), f)

\* lines 54-58, 66-72 and 83-89: the first pattern of the list, from p on,
\* that matches anywhere in the text; p = 0 when none does
RECURSIVE FirstPattern(_, _, _, _)
RECURSIVE PatternMatch(_, _, _, _, _)
PatternMatch(match, patterns, text, p, f) ==
    IF match.ok THEN [p |-> p, m |-> match] ELSE FirstPattern(patterns, text, p + 1, f)
FirstPattern(patterns, text, p, f) ==
    IF p > Len(patterns) THEN [p |-> 0, m |-> NoMatch]
    ELSE PatternMatch(ReSearch(patterns[p], text, f), patterns, text, p, f)

\* s[:n]
Truncate(s, n) == SubSeq(s, 1, IF Len(s) < n THEN Len(s) ELSE n)

\* lines 55-57
DateOfHit(hit, text) == IF hit.p = 0 THEN <<>> ELSE Strip(Group(hit.m, text, 1))
\* lines 48-58
InvoiceDate(text) == DateOfHit(FirstPattern(DatePatterns, text, 1, Flags(TRUE, FALSE)), text)

\* lines 69-71: the captured name stripped, its parentheses removed, cut
NormalizeRestaurant(captured) ==
    Truncate(ReSubEmpty(ParenthesesRe, Strip(captured), Flags(FALSE, FALSE)), MaxRestaurantLen)

\* lines 67-72
RestaurantOfHit(hit, text) ==
    IF hit.p = 0 THEN <<>> ELSE NormalizeRestaurant(Group(hit.m, text, 1))
\* lines 60-72
InvoiceRestaurant(text) ==
    RestaurantOfHit(FirstPattern(RestaurantPatterns, text, 1, Flags(TRUE, FALSE)), text)

\* lines 84-89
AmountOfHit(hit, text) ==
    IF hit.p = 0 THEN <<>> ELSE <<Rupee>> \o RemoveChar(Group(hit.m, text, 1), ",")
\* lines 74-89
InvoiceAmount(text) ==
    AmountOfHit(FirstPattern(InvoiceTotalPatterns, text, 1, Flags(TRUE, TRUE)), text)

\* lines 99-112: f"{qty}x {item_name} (₹{price})" when the line has the item
\* shape, a name longer than 3 characters and no header word
InvoiceItemOfMatch(line, match) ==
    LET item_name == Strip(Group(match, line, 1))
    IN IF match.ok /\ Len(item_name) > 3
          /\ item_name \notin {<<"T","a","x","e","s">>, <<"T","o","t","a","l">>, <<"I","t","e","m">>}
       THEN <<Group(match, line, 2) \o <<"x"," ">> \o item_name \o <<" ","(",Rupee>>
              \o RemoveChar(Group(match, line, 4), ",") \o <<")">>>>
       ELSE <<>>

\* lines 97-112: the items of the lines from line k on
RECURSIVE InvoiceItems(_, _)
InvoiceItems(lines, k) ==
    IF k > Len(lines) THEN <<>>
    ELSE InvoiceItemOfMatch(Strip(lines[k]),
                            ReMatch(InvoiceItemRe, Strip(lines[k]), Flags(TRUE, FALSE)))
         \o InvoiceItems(lines, k + 1)

\* lines 40-116: the record of one text
ParseInvoiceFields(text, filename) ==
    [filename |-> filename,
     date |-> InvoiceDate(text),
     restaurant |-> InvoiceRestaurant(text),
     amount |-> InvoiceAmount(text),
     items |-> Truncate(InvoiceItems(Split(text, NL), 1), MaxInvoiceItems)]

(***************************************************************************)
(* Documents: the lines invoices are made of, and the PDFs the extractor   *)
(* reads. A PDF is readable or not (pdfplumber.open raises) and has pages; *)
(* a page's extract_text() gives a text or None.                           *)
(***************************************************************************)
LineDateFull == <<"O","r","d","e","r"," ","T","i","m","e",":"," ","3","1"," ","J","a","n","u","a","r","y"," ","2","0","2","6",","," ","1","2",":","5","2"," ","P","M">>
LineDateAbbr == <<"O","r","d","e","r"," ","T","i","m","e",":"," ","5"," ","F","e","b"," ","2","0","2","6",","," ","1",":","0","5"," ","A","M">>
LineDateBadMonth == <<"O","r","d","e","r"," ","T","i","m","e",":"," ","3","1"," ","S","e","p","t"," ","2","0","2","6",","," ","1","2",":","5","2"," ","P","M">>
LineDateEarlyRaw == <<"O","r","d","e","r"," ","T","i","m","e",":"," ","1"," ","S","e","p","t"," ","2","0","2","6",","," ","9",":","3","0"," ","A","M">>
LineDateNoSpace == <<"O","r","d","e","r"," ","T","i","m","e",":"," ","3","1"," ","J","a","n","u","a","r","y"," ","2","0","2","6",",","1","2",":","5","2"," ","P","M">>
LineOrderId == <<"O","r","d","e","r"," ","I","D",":"," ","7","4","2","1">>
LineRestaurant == <<"R","e","s","t","a","u","r","a","n","t"," ","N","a","m","e",":"," ","B","e","h","r","o","u","z"," ","B","i","r","y","a","n","i">>
LineRestaurantParen == <<"R","e","s","t","a","u","r","a","n","t"," ","N","a","m","e",":"," ","P",".","F","."," ","C","h","a","n","g","'","s"," ","(","S","e","c","t","o","r"," ","1","8",")">>
LineRestaurantLong == <<"R","e","s","t","a","u","r","a","n","t"," ","N","a","m","e",":"," ","T","h","e"," ","G","r","a","n","d"," ","I","m","p","e","r","i","a","l"," ","R","o","y","a","l"," ","H","e","r","i","t","a","g","e"," ","K","i","t","c","h","e","n"," ","a","n","d"," ","A","u","t","h","e","n","t","i","c"," ","N","o","r","t","h"," ","I","n","d","i","a","n"," ","T","a","n","d","o","o","r","i"," ","F","a","m","i","l","y"," ","R","e","s","t","a","u","r","a","n","t"," ","a","n","d"," ","S","w","e","e","t","s"," ","C","o","r","n","e","r">>
LineRestaurantBlank == <<"R","e","s","t","a","u","r","a","n","t"," ","N","a","m","e",":"," "," ">>
LineOrderedFrom == <<"O","r","d","e","r","e","d"," ","f","r","o","m",":"," ","O","v","e","n"," ","S","t","o","r","y"," ","(","N","o","i","d","a",")">>
LineHeader == <<"I","t","e","m"," ","Q","u","a","n","t","i","t","y"," ","U","n","i","t"," ","P","r","i","c","e"," ","T","o","t","a","l"," ","P","r","i","c","e">>
LineSubHeader == <<"U","n","i","t"," ","P","r","i","c","e"," ","T","o","t","a","l"," ","P","r","i","c","e">>
LineItemPaneer == <<"P","a","n","e","e","r"," ","T","i","k","k","a"," ","2"," ",Rupee,"2","5","0"," ",Rupee,"5","0","0">>
LineItemNaan == <<"B","u","t","t","e","r"," ","N","a","a","n"," ","4"," ",Rupee,"4","0"," ",Rupee,"1",",","1","6","0",".","5","0">>
LineDelivery == <<"D","e","l","i","v","e","r","y"," ","C","h","a","r","g","e"," ",Rupee,"3","0">>
LineTaxes == <<"T","a","x","e","s"," ",Rupee,"2","5",".","5","0">>
LineDosa == <<"M","a","s","a","l","a"," ","D","o","s","a"," ",Rupee,"1","2","0">>
LineTotal15 == <<"T","o","t","a","l"," ",Rupee,"1","5">>
LineTotal20 == <<"T","o","t","a","l"," ",Rupee,"2","0">>
LineTotal530 == <<"T","o","t","a","l"," ",Rupee,"5","3","0">>
LineTotalColon == <<"T","o","t","a","l",":"," ",Rupee,"1",",","2","6","2",".","5","3">>
LineTotalLower == <<" "," ","t","o","t","a","l"," ",Rupee,"4","5",".","5">>
LineSubtotal == <<"S","u","b","t","o","t","a","l"," ",Rupee,"4","0","0">>
LineBlank == <<>>
LineGrandTotal == <<"G","r","a","n","d"," ","T","o","t","a","l"," ",Rupee,"5","3","0">>
LineTotalAlone == <<"T","o","t","a","l">>
LineBareDate == <<"I","n","v","o","i","c","e"," ","o","f"," ","3"," ","M","a","r"," ","2","0","2","6">>
LineNumericDate == <<"D","a","t","e","d"," ","0","4","/","0","3","/","2","0","2","6">>
LineDeliveryFrom == <<"D","e","l","i","v","e","r","y"," ","f","r","o","m",":"," ","W","o","w"," ","M","o","m","o">>
LineTea == <<"T","e","a"," ",Rupee,"2","0">>
LineFree == <<"F","r","e","e"," ","C","o","k","e"," ",Rupee,"0">>
LineAmountAlone == <<Rupee,"5","3","0">>

\* "\n".join(lines)
RECURSIVE Join(_)
Join(lines) ==
    IF Len(lines) = 0 THEN <<>>
    ELSE IF Len(lines) = 1 THEN lines[1]
    ELSE lines[1] \o <<NL>> \o Join(Tail(lines))

\* the sequences of at most n elements of S
Seqs(S, n) == UNION {[1..k -> S] : k \in 0..n}
\* no line, or one of S
OptLine(S) == {<<>>} \cup {<<l>> : l \in S}

MaxTotalLines == 3
MaxInvoiceLines == 4
MaxTableLines == 4

DateLines == {LineDateFull, LineDateAbbr, LineDateBadMonth, LineDateEarlyRaw, LineDateNoSpace}
RestaurantLines == {LineRestaurant, LineRestaurantParen, LineRestaurantLong, LineRestaurantBlank}
TotalLines == {LineTotal15, LineTotal530, LineTotalColon, LineTotalLower, LineSubtotal}
TableLines == {LineHeader, LineSubHeader, LineItemPaneer, LineDelivery}

\* documents with or without each of the date, the merchant and the total
FieldDocs ==
    {d \o r \o t : d \in OptLine(DateLines), r \in OptLine(RestaurantLines),
                   t \in OptLine({LineTotal15, LineTotal530, LineTotalColon})}
\* documents with several lines of totals
TotalsDocs ==
    {<<LineDateFull, LineRestaurant>> \o ts : ts \in Seqs(TotalLines, MaxTotalLines)}
\* documents with an items table
TableDocs ==
    {<<LineDateAbbr, LineRestaurantParen>> \o tb \o <<LineTotal530>> :
        tb \in Seqs(TableLines, MaxTableLines)}
\* whole invoices and odd ones
OtherDocs ==
    { <<LineOrderId, LineDateFull, LineRestaurant, LineHeader, LineItemPaneer, LineItemNaan,
        LineTaxes, LineDelivery, LineTotalColon>>,
      <<LineDateFull, LineRestaurant, LineHeader, LineItemNaan, LineBlank, LineItemPaneer,
        LineTotal530>>,
      <<LineDateFull, LineRestaurant, LineDosa, LineDelivery, LineTotal530>>,
      <<LineDateFull, LineRestaurant, LineTotal20, LineTotal15>>,
      <<LineDateFull, LineOrderedFrom, LineTotal530>>,
      <<LineBlank>>,
      <<LineBlank, LineBlank>>,
      <<LineDateFull, LineRestaurant, LineDosa, LineTea, LineFree, LineTotal530>>,
      <<LineDateFull, LineRestaurant, LineTea, LineHeader, LineDosa, LineTotal530>>,
      <<LineDateFull, LineRestaurant, LineDosa, LineHeader, LineItemNaan, LineTaxes, LineDosa, LineTotal530>>,
      <<LineDateFull, LineRestaurant, LineGrandTotal>>,
      <<LineDateFull, LineRestaurant, LineTotal15, LineGrandTotal>>,
      <<LineDateFull, LineRestaurant, LineGrandTotal, LineTotalColon>>,
      <<LineDateFull, LineRestaurant, LineTotalAlone, LineAmountAlone>>,
      <<LineDateFull, LineRestaurant, LineTotal15, LineTotalAlone, LineAmountAlone>> }

\* invoices with their dates and their merchant written in several ways, in
\* any order
DispatchLines ==
    {LineBareDate, LineNumericDate, LineDateAbbr, LineOrderedFrom, LineDeliveryFrom, LineRestaurant}
DispatchDocs ==
    {d \in Seqs(DispatchLines, MaxInvoiceLines) : \A i, j \in DOMAIN d : d[i] = d[j] => i = j}

OnePage(doc) == [readable |-> TRUE, pages |-> <<Join(doc)>>]
\* a file pdfplumber cannot open, a PDF without pages, pages without a text
\* layer (extract_text() gives "" or None), and texts over two pages
OddPdfs ==
    { [readable |-> FALSE, pages |-> <<>>],
      [readable |-> TRUE, pages |-> <<>>],
      [readable |-> TRUE, pages |-> << <<>>, <<>> >>],
      [readable |-> TRUE, pages |-> <<None>>],
      [readable |-> TRUE, pages |-> <<Join(<<LineDateFull, LineRestaurant, LineTotal530>>), None>>],
      [readable |-> TRUE, pages |-> <<Join(<<LineDateFull, LineRestaurant>>), Join(<<LineTotal530>>)>>],
      [readable |-> TRUE, pages |-> <<Join(<<LineDateFull, LineRestaurant, LineHeader, LineItemPaneer>>),
                                     Join(<<LineItemNaan, LineDelivery, LineTotalColon>>)>>] }

OrderPdfs == {OnePage(doc) : doc \in FieldDocs \cup TotalsDocs \cup TableDocs \cup OtherDocs} \cup OddPdfs
InvoicePdfs == {OnePage(doc) : doc \in FieldDocs \cup OtherDocs \cup DispatchDocs} \cup OddPdfs

\* os.path.basename and os.path.join
Basename(path) == LET parts == Split(path, "/") IN parts[Len(parts)]
PathJoin(dir, name) == dir \o <<"/">> \o name

FolderPath == <<"g","m","a","i","l","_","p","d","f","s">>
PdfPath == PathJoin(FolderPath, <<"O","r","d","e","r","_","7","4","2","1",".","p","d","f">>)

\* the value of a parser that returned None, and of a variable not yet set
NoData == [returned |-> "None"]
Unset == [returned |-> "nothing yet"]

\* lines 17-19 of extract_food_delivery_data.py: text += page.extract_text() + "\n";
\* a page without text (None) raises TypeError
RECURSIVE OrderText(_)
OrderText(pages) ==
    IF Len(pages) = 0 THEN [raised |-> FALSE, text |-> <<>>]
    ELSE LET rest == OrderText(Tail(pages))
         IN IF pages[1] = None \/ rest.raised THEN [raised |-> TRUE, text |-> <<>>]
            ELSE [raised |-> FALSE, text |-> pages[1] \o <<NL>> \o rest.text]

\* lines 36-38 of parse_invoices.py: text += page.extract_text() or ""
RECURSIVE InvoiceText(_)
InvoiceText(pages) ==
    IF Len(pages) = 0 THEN <<>>
    ELSE (IF pages[1] = None THEN <<>> ELSE pages[1]) \o InvoiceText(Tail(pages))

\* Python's truth value of an optional string and of an optional number
TruthyStr(s) == s # None /\ s # <<>>
TruthyNum(d) == d # NoTotal /\ d.n # 0

\* a gate that does not look at the total: a faulty variant of CompletenessGate
GateWithoutTotal(d) ==
    IF TruthyStr(d.date) /\ TruthyStr(d.restaurant_name) THEN d ELSE NoData

\* lines 152-156: the record when it has its essential fields, else None
CompletenessGate(d) ==
    IF TruthyStr(d.date) /\ TruthyStr(d.restaurant_name) /\ TruthyNum(d.total)
    THEN d ELSE NoData

\* lines 15-22: the text of the PDF; None is returned when opening or reading
\* raises (158-160) and when there is no text (21-22)
TextOrNone(p, t) == IF ~p.readable \/ t.raised \/ t.text = <<>> THEN None ELSE t.text

\* extract_order_data as a whole (lines 13-160)
GatedFields(t, pdf_path) ==
    IF t = None THEN NoData ELSE CompletenessGate(ParseOrderFields(t, Basename(pdf_path)))
ExtractOrderData(p, pdf_path) == GatedFields(TextOrNone(p, OrderText(p.pages)), pdf_path)

\* extract_invoice_data as a whole (lines 32-120): None on any exception
ExtractInvoiceData(p, pdf_path) ==
    IF ~p.readable THEN NoData
    ELSE ParseInvoiceFields(InvoiceText(p.pages), Basename(pdf_path))

(***************************************************************************)
(* Sorting (list.sort is stable) and the batch of process_all_pdfs          *)
(***************************************************************************)
\* the pair x put into the pairs already in order of key: after every pair
\* whose key is not greater
RECURSIVE InsertPair(_, _)
InsertPair(sorted, x) ==
    IF sorted = <<>> THEN <<x>>
    ELSE IF StrLess(x.key, sorted[Len(sorted)].key)
         THEN Append(InsertPair(SubSeq(sorted, 1, Len(sorted) - 1), x), sorted[Len(sorted)])
         ELSE Append(sorted, x)

RECURSIVE SortPairs(_)
SortPairs(pairs) ==
    IF pairs = <<>> THEN <<>>
    ELSE InsertPair(SortPairs(SubSeq(pairs, 1, Len(pairs) - 1)), pairs[Len(pairs)])

\* the values of the pairs
Values(pairs) == [k \in DOMAIN pairs |-> pairs[k].val]

\* line 175: pdf_files.sort()
SortedPaths(paths) == Values(SortPairs([k \in DOMAIN paths |-> [key |-> paths[k], val |-> paths[k]]]))

\* line 295: key=lambda x: x['date'] or ''
DateKey(x) == IF TruthyStr(x.date) THEN x.date ELSE <<>>
\* line 295: all_data.sort(key=...)
SortedByDate(rows) == Values(SortPairs([k \in DOMAIN rows |-> [key |-> DateKey(rows[k]), val |-> rows[k]]]))

\* every name ending in .pdf: a faulty variant of Eligible
EligibleAnyPdf(filename) == EndsWith(filename, <<".","p","d","f">>)

\* lines 169-171: the names process_all_pdfs takes
Eligible(filename) ==
    EndsWith(filename, <<".","p","d","f">>) /\ ~Contains(filename, <<"U","s","e","r","_","C","h","a","r","g","e","_","I","n","v","o","i","c","e">>)

\* lines 168-172: the paths of the names taken, in the order of the listing
EligiblePaths(listing) ==
    LET taken == SelectSeq(listing, Eligible)
    IN [k \in DOMAIN taken |-> PathJoin(FolderPath, taken[k])]

\* os.listdir: the names of the directory in any order
Listings(names) ==
    {l \in [1..Cardinality(names) -> names] : {l[k] : k \in DOMAIN l} = names}

(***************************************************************************)
(* analyze_data: the figures of a list of records                          *)
(***************************************************************************)
\* line 223: sum(row['total'] for row in data)
RECURSIVE SumTotals(_, _)
SumTotals(rows, acc) ==
    IF rows = <<>> THEN acc ELSE SumTotals(Tail(rows), AddDec(acc, Head(rows).total))

RECURSIVE Gcd(_, _)
Gcd(a, b) == IF b = 0 THEN a ELSE Gcd(b, a % b)

\* a fraction num / den in lowest terms
Fraction(num, den) == [num |-> num \div Gcd(num, den), den |-> den \div Gcd(num, den)]

\* line 231: total_spending / num_orders if num_orders > 0 else 0
AvgOrder(total_spending, num_orders) ==
    IF num_orders > 0
    THEN Fraction(total_spending.n, num_orders * Pow10(total_spending.e))
    ELSE Fraction(0, 1)

\* lines 234-236: max(totals) and min(totals)
MaxOrder(rows) == (CHOOSE r \in {rows[k] : k \in DOMAIN rows} :
                      \A k \in DOMAIN rows : ~DecLess(r.total, rows[k].total)).total
MinOrder(rows) == (CHOOSE r \in {rows[k] : k \in DOMAIN rows} :
                        \A k \in DOMAIN rows : ~DecLess(rows[k].total, r.total)).total

\* lines 249-254: the orders and the spending of each restaurant
RestaurantTotals(rows) ==
    [r \in {rows[k].restaurant_name : k \in DOMAIN rows} |->
        [count |-> Cardinality({k \in DOMAIN rows : rows[k].restaurant_name = r}),
         total |-> SumTotals(SelectSeq(rows, LAMBDA row : row.restaurant_name = r), Dec(0))]]

\* line 272: row['date'][:7]
Month(row) == SubSeq(row.date, 1, IF Len(row.date) < 7 THEN Len(row.date) ELSE 7)

\* lines 267-275: the orders and the spending of each month, of the rows
\* that have a date
MonthlyTotals(rows) ==
    LET dated == SelectSeq(rows, LAMBDA row : TruthyStr(row.date))
    IN [m \in {Month(dated[k]) : k \in DOMAIN dated} |->
           [count |-> Cardinality({k \in DOMAIN dated : Month(dated[k]) = m}),
            total |-> SumTotals(SelectSeq(dated, LAMBDA row : Month(row) = m), Dec(0))]]

\* a test that takes no list for empty: a faulty variant of NotData
NeverNotData(rows) == FALSE

\* line 214: `not data`
NotData(rows) == rows = <<>>

\* the figures before analyze_data has computed them
NoStats == [total_spending |-> NoTotal, num_orders |-> -1, avg_order |-> Fraction(0, 1),
            max_order |-> NoTotal, min_order |-> NoTotal,
            restaurant_totals |-> <<>>, monthly_totals |-> <<>>]

\* analyze_data as a whole (lines 212-285) on a list that is not empty
AnalyzeData(rows) ==
    [total_spending |-> SumTotals(rows, Dec(0)),
     num_orders |-> Len(rows),
     avg_order |-> AvgOrder(SumTotals(rows, Dec(0)), Len(rows)),
     max_order |-> MaxOrder(rows),
     min_order |-> MinOrder(rows),
     restaurant_totals |-> RestaurantTotals(rows),
     monthly_totals |-> MonthlyTotals(rows)]

(***************************************************************************)
(* State                                                                   *)
(***************************************************************************)
VARIABLES
    script,     \* the parser that runs: "extract_order_data" or "extract_invoice_data"
    pdf,        \* the PDF it is given
    pdf_path,   \* and its path
    pc,         \* where the parser is: "idle", "open", "parse", "gate", "done"
    text,       \* the text extracted from the pages
    data,       \* the record being filled in
    result,     \* what the parser returned: NoData is None
    folder,     \* the directory of process_all_pdfs: file name -> PDF
    pdf_files,  \* the paths to process
    next_file,  \* the place in pdf_files of the loop of process_all_pdfs
    all_data,   \* the records collected; the list analyze_data is given
    invoked,    \* the paths the parser was invoked on, in order
    skipped,    \* the names reported as "Could not extract data"
    bpc,        \* where the batch is: "off", "list", "loop", "parse", "main",
                \* "sorted", "reported", "no data"
    apc,        \* where analyze_data is: "off", "start", "total", "count",
                \* "average", "extremes", "breakdown", "returned", "raised"
    stats,      \* the figures analyze_data has computed
    raised      \* the exception analyze_data ended with, "none" without one

VARIABLES
    upc,          \* where upload_to_google_sheets is: "off", "credentials", "authenticate",
                  \* "read", "create", "open", "clear", "header", "rows", "format",
                  \* "resize", "finish", "returned"
    credentials,  \* whether a credentials file is found
    existing,     \* the spreadsheet of that name there is already, if any, and
                  \* the rows of its first worksheet
    spreadsheet,  \* the spreadsheet in use: "none", "created", "opened"
    csv_file,     \* the rows of the CSV file as csv.reader gives them
    headers,      \* reader.fieldnames
    csv_rows,     \* the list `data` of upload_to_google_sheets
    worksheet,    \* the rows of the first worksheet of the spreadsheet
    formatted,    \* the rows of the worksheet shown in bold on a colour
    calls,        \* the calls made on the worksheet, in order
    uploaded,     \* what upload_to_google_sheets returned: "True", "False", "nothing yet"
    ipc,          \* where parse_invoices_to_sheet is: "off", "start", "sheet", "loop",
                  \* "parse", "write", "returned", "raised"
    folder_exists,\* os.path.exists(folder_path)
    rows_to_add,  \* the rows of parse_invoices_to_sheet
    successful,   \* its count of the invoices parsed
    failed,       \* and of those that were not
    sheet,        \* the rows of the sheet it creates
    dpc,          \* where download_pdf_attachments is: "off", "search", "messages",
                  \* "parts", "complete", "no messages", "error"
    messages,     \* the payloads of the messages the search gives
    msg_idx,      \* the place in them of the loop of download_pdf_attachments
    frames,       \* the calls of process_parts that are running, the innermost last
    pdf_count,    \* pdf_count of download_pdf_attachments
    written       \* the paths the attachments were written to, in order

parserVars == <<script, pdf, pdf_path, pc, text, data, result>>
batchVars == <<folder, pdf_files, next_file, all_data, invoked, skipped, bpc>>
analyzeVars == <<apc, stats, raised>>
uploadVars == <<upc, credentials, existing, spreadsheet, csv_file, headers, csv_rows, worksheet, formatted, calls, uploaded>>
sheetVars == <<ipc, folder_exists, rows_to_add, successful, failed, sheet>>
downloadVars == <<dpc, messages, msg_idx, frames, pdf_count, written>>
otherVars == <<uploadVars, sheetVars, downloadVars>>
vars == <<parserVars, batchVars, analyzeVars, otherVars>>

(***************************************************************************)
(* The two field parsers, step by step on one PDF                          *)
(***************************************************************************)
\* lines 15-22 and 158-160: open the PDF and read its pages
ExtractText ==
    /\ script = "extract_order_data" /\ pc = "open"
    /\ LET t == TextOrNone(pdf, OrderText(pdf.pages))
       IN IF t = None
          THEN result' = NoData /\ pc' = "done" /\ UNCHANGED text
          ELSE text' = t /\ pc' = "parse" /\ UNCHANGED result
    /\ UNCHANGED <<script, pdf, pdf_path, data, batchVars, analyzeVars>>
    /\ UNCHANGED otherVars

\* lines 24-150: fill in the record
ParseFields ==
    /\ script = "extract_order_data" /\ pc = "parse"
    /\ data' = ParseOrderFields(text, Basename(pdf_path))
    /\ pc' = "gate"
    /\ UNCHANGED <<script, pdf, pdf_path, text, result, batchVars, analyzeVars>>
    /\ UNCHANGED otherVars

\* lines 152-156: return the record or None
Gate ==
    /\ script = "extract_order_data" /\ pc = "gate"
    /\ result' = CompletenessGate(data)
    /\ pc' = "done"
    /\ UNCHANGED <<script, pdf, pdf_path, text, data, batchVars, analyzeVars>>
    /\ UNCHANGED otherVars

\* parse_invoices.py lines 34-38 and 118-120
InvoiceExtractText ==
    /\ script = "extract_invoice_data" /\ pc = "open"
    /\ IF pdf.readable
       THEN text' = InvoiceText(pdf.pages) /\ pc' = "parse" /\ UNCHANGED result
       ELSE result' = NoData /\ pc' = "done" /\ UNCHANGED text
    /\ UNCHANGED <<script, pdf, pdf_path, data, batchVars, analyzeVars>>
    /\ UNCHANGED otherVars

\* parse_invoices.py lines 40-116
InvoiceParse ==
    /\ script = "extract_invoice_data" /\ pc = "parse"
    /\ data' = ParseInvoiceFields(text, Basename(pdf_path))
    /\ result' = data'
    /\ pc' = "done"
    /\ UNCHANGED <<script, pdf, pdf_path, text, batchVars, analyzeVars>>
    /\ UNCHANGED otherVars

ParserIdle ==
    /\ script = "extract_order_data"
    /\ pdf = [readable |-> FALSE, pages |-> <<>>]
    /\ pdf_path = <<>>
    /\ pc = "idle"
    /\ text = <<>>
    /\ data = Unset
    /\ result = Unset

BatchOff ==
    /\ folder = <<>>
    /\ pdf_files = <<>>
    /\ next_file = 0
    /\ all_data = <<>>
    /\ invoked = <<>>
    /\ skipped = <<>>
    /\ bpc = "off"

AnalyzeOff == apc = "off" /\ stats = NoStats /\ raised = "none"

UploadOff ==
    /\ upc = "off"
    /\ credentials = FALSE
    /\ existing = [found |-> FALSE, rows |-> <<>>]
    /\ spreadsheet = "none"
    /\ csv_file = <<>>
    /\ headers = <<>>
    /\ csv_rows = <<>>
    /\ worksheet = <<>>
    /\ formatted = {}
    /\ calls = <<>>
    /\ uploaded = "nothing yet"

SheetOff ==
    /\ ipc = "off"
    /\ folder_exists = TRUE
    /\ rows_to_add = <<>>
    /\ successful = 0
    /\ failed = 0
    /\ sheet = <<>>

DownloadOff ==
    /\ dpc = "off"
    /\ messages = <<>>
    /\ msg_idx = 0
    /\ frames = <<>>
    /\ pdf_count = 0
    /\ written = <<>>

\* one of the parsers is called on a PDF
Init ==
    /\ script \in {"extract_order_data", "extract_invoice_data"}
    /\ pdf \in (IF script = "extract_order_data" THEN OrderPdfs ELSE InvoicePdfs)
    /\ pdf_path = PdfPath
    /\ pc = "open"
    /\ text = <<>>
    /\ data = Unset
    /\ result = Unset
    /\ BatchOff
    /\ AnalyzeOff
    /\ UploadOff /\ SheetOff /\ DownloadOff

Next == ExtractText \/ ParseFields \/ Gate \/ InvoiceExtractText \/ InvoiceParse

Spec == Init /\ [][Next]_vars

(***************************************************************************)
(* process_all_pdfs and the __main__ block                                 *)
(***************************************************************************)
MaxFiles == 3

EligibleNames == {<<"O","r","d","e","r","_","1",".","p","d","f">>, <<"O","r","d","e","r","_","2",".","p","d","f">>, <<"i","n","v","o","i","c","e","_","1","0",".","p","d","f">>}
OtherNames == {<<"U","s","e","r","_","C","h","a","r","g","e","_","I","n","v","o","i","c","e","_","3",".","p","d","f">>, <<"n","o","t","e","s",".","t","x","t">>, <<"O","r","d","e","r","_","4",".","P","D","F">>}

\* what an order file of a batch holds: complete orders with a date that is
\* normalized or kept as written, an order without a total, a file that
\* cannot be opened
BatchPdfs ==
    { OnePage(<<LineDateFull, LineRestaurant, LineTotal530>>),
      OnePage(<<LineDateAbbr, LineRestaurantParen, LineTotalColon>>),
      OnePage(<<LineDateBadMonth, LineRestaurant, LineTotal530>>),
      OnePage(<<LineDateEarlyRaw, LineRestaurant, LineTotalColon>>),
      OnePage(<<LineDateFull, LineRestaurant>>),
      [readable |-> FALSE, pages |-> <<>>] }
\* what the other files hold
OtherPdf == OnePage(<<LineDateAbbr, LineRestaurant, LineTotal530>>)

\* directories of at most MaxFiles files, and directories of one order of any kind
Folders ==
    UNION { UNION { {[n \in E \cup O |-> IF n \in E THEN g[n] ELSE OtherPdf] : g \in [E -> BatchPdfs]} :
                    O \in {X \in SUBSET OtherNames : Cardinality(E) + Cardinality(X) <= MaxFiles} } :
            E \in SUBSET EligibleNames }
    \cup {[n \in {<<"O","r","d","e","r","_","1",".","p","d","f">>} |-> p] : p \in OrderPdfs}

\* lines 164-177: list the directory, keep the order PDFs, sort their paths
ListFiles ==
    /\ bpc = "list"
    /\ \E listing \in Listings(DOMAIN folder) :
          pdf_files' = SortedPaths(EligiblePaths(listing))
    /\ next_file' = 1
    /\ bpc' = "loop"
    /\ UNCHANGED <<parserVars, folder, all_data, invoked, skipped, analyzeVars>>
    /\ UNCHANGED otherVars

\* lines 179-181: the next path is handed to extract_order_data
CallParser ==
    /\ bpc = "loop" /\ next_file <= Len(pdf_files)
    /\ invoked' = Append(invoked, pdf_files[next_file])
    /\ pdf_path' = pdf_files[next_file]
    /\ pdf' = folder[Basename(pdf_files[next_file])]
    /\ pc' = "open" /\ text' = <<>> /\ data' = Unset /\ result' = Unset
    /\ bpc' = "parse"
    /\ UNCHANGED <<script, folder, pdf_files, next_file, all_data, skipped, analyzeVars>>
    /\ UNCHANGED otherVars

\* lines 182-185: the record is collected, None is reported and skipped
Collect ==
    /\ bpc = "parse" /\ pc = "done"
    /\ IF result # NoData
       THEN all_data' = Append(all_data, result) /\ UNCHANGED skipped
       ELSE skipped' = Append(skipped, Basename(pdf_path)) /\ UNCHANGED all_data
    /\ next_file' = next_file + 1
    /\ pc' = "idle"
    /\ bpc' = "loop"
    /\ UNCHANGED <<script, pdf, pdf_path, text, data, result, folder, pdf_files, invoked,
                   analyzeVars>>
    /\ UNCHANGED otherVars

\* line 187: return all_data
Return ==
    /\ bpc = "loop" /\ next_file > Len(pdf_files)
    /\ bpc' = "main"
    /\ UNCHANGED <<parserVars, folder, pdf_files, next_file, all_data, invoked, skipped,
                   analyzeVars>>
    /\ UNCHANGED otherVars

\* lines 293-295: the records are sorted by date
SortByDate ==
    /\ bpc = "main" /\ all_data # <<>>
    /\ all_data' = SortedByDate(all_data)
    /\ bpc' = "sorted"
    /\ UNCHANGED <<parserVars, folder, pdf_files, next_file, invoked, skipped, analyzeVars>>
    /\ UNCHANGED otherVars

\* lines 297-303: the records are exported and analysed
Report ==
    /\ bpc = "sorted"
    /\ stats' = AnalyzeData(all_data)
    /\ bpc' = "reported"
    /\ UNCHANGED <<parserVars, folder, pdf_files, next_file, all_data, invoked, skipped,
                   apc, raised>>
    /\ UNCHANGED otherVars

\* lines 304-305: nothing was extracted
NoDataExtracted ==
    /\ bpc = "main" /\ all_data = <<>>
    /\ bpc' = "no data"
    /\ UNCHANGED <<parserVars, folder, pdf_files, next_file, all_data, invoked, skipped,
                   analyzeVars>>
    /\ UNCHANGED otherVars

BatchInit ==
    /\ ParserIdle
    /\ folder \in Folders
    /\ pdf_files = <<>>
    /\ next_file = 0
    /\ all_data = <<>>
    /\ invoked = <<>>
    /\ skipped = <<>>
    /\ bpc = "list"
    /\ AnalyzeOff
    /\ UploadOff /\ SheetOff /\ DownloadOff

BatchNext ==
    \/ ListFiles \/ CallParser \/ ExtractText \/ ParseFields \/ Gate \/ Collect \/ Return
    \/ SortByDate \/ Report \/ NoDataExtracted

BatchSpec == BatchInit /\ [][BatchNext]_vars

(***************************************************************************)
(* analyze_data, step by step on a list of records                         *)
(***************************************************************************)
MaxOrders == 3

\* records as extract_order_data returns them
OrderPool ==
    { OrderData(None, <<"2","0","2","6","-","0","1","-","3","1">>, <<"B","e","h","r","o","u","z"," ","B","i","r","y","a","n","i">>, <<>>, Dec(530), <<"O","r","d","e","r","_","1",".","p","d","f">>),
      OrderData(<<"7","4","2","1">>, <<"2","0","2","6","-","0","1","-","0","5">>, <<"B","e","h","r","o","u","z"," ","B","i","r","y","a","n","i">>, <<>>,
                [n |-> 126253, e |-> 2], <<"O","r","d","e","r","_","2",".","p","d","f">>),
      OrderData(None, <<"2","0","2","6","-","0","2","-","0","5">>, <<"P",".","F","."," ","C","h","a","n","g","'","s"," ","(","S","e","c","t","o","r"," ","1","8",")">>, <<>>,
                [n |-> 455, e |-> 1], <<"O","r","d","e","r","_","3",".","p","d","f">>),
      OrderData(None, <<"3","1"," ","S","e","p","t"," ","2","0","2","6",","," ","1","2",":","5","2"," ","P","M">>, <<"O","v","e","n"," ","S","t","o","r","y">>, <<>>, Dec(1000), <<"O","r","d","e","r","_","4",".","p","d","f">>) }

\* lines 214-216: nothing to analyse
AnalyzeStart ==
    /\ apc = "start"
    /\ apc' = IF NotData(all_data) THEN "returned" ELSE "total"
    /\ UNCHANGED <<parserVars, batchVars, stats, raised>>
    /\ UNCHANGED otherVars

\* line 223
TotalSpending ==
    /\ apc = "total"
    /\ stats' = [stats EXCEPT !.total_spending = SumTotals(all_data, Dec(0))]
    /\ apc' = "count"
    /\ UNCHANGED <<parserVars, batchVars, raised>>
    /\ UNCHANGED otherVars

\* line 227
NumOrders ==
    /\ apc = "count"
    /\ stats' = [stats EXCEPT !.num_orders = Len(all_data)]
    /\ apc' = "average"
    /\ UNCHANGED <<parserVars, batchVars, raised>>
    /\ UNCHANGED otherVars

\* line 231
AverageOrder ==
    /\ apc = "average"
    /\ stats' = [stats EXCEPT !.avg_order = AvgOrder(stats.total_spending, stats.num_orders)]
    /\ apc' = "extremes"
    /\ UNCHANGED <<parserVars, batchVars, raised>>
    /\ UNCHANGED otherVars

\* lines 234-238: max() and min() of an empty list raise ValueError
Extremes ==
    /\ apc = "extremes"
    /\ IF all_data = <<>>
       THEN raised' = "ValueError" /\ apc' = "raised" /\ UNCHANGED stats
       ELSE /\ stats' = [stats EXCEPT !.max_order = MaxOrder(all_data),
                                      !.min_order = MinOrder(all_data)]
            /\ apc' = "breakdown"
            /\ UNCHANGED raised
    /\ UNCHANGED <<parserVars, batchVars>>
    /\ UNCHANGED otherVars

\* lines 249-283
Breakdown ==
    /\ apc = "breakdown"
    /\ stats' = [stats EXCEPT !.restaurant_totals = RestaurantTotals(all_data),
                              !.monthly_totals = MonthlyTotals(all_data)]
    /\ apc' = "returned"
    /\ UNCHANGED <<parserVars, batchVars, raised>>
    /\ UNCHANGED otherVars

AnalyzeInit ==
    /\ ParserIdle
    /\ folder = <<>>
    /\ pdf_files = <<>>
    /\ next_file = 0
    /\ all_data \in Seqs(OrderPool, MaxOrders)
    /\ invoked = <<>>
    /\ skipped = <<>>
    /\ bpc = "off"
    /\ apc = "start"
    /\ stats = NoStats
    /\ raised = "none"
    /\ UploadOff /\ SheetOff /\ DownloadOff

AnalyzeNext ==
    AnalyzeStart \/ TotalSpending \/ NumOrders \/ AverageOrder \/ Extremes \/ Breakdown

AnalyzeSpec == AnalyzeInit /\ [][AnalyzeNext]_vars

(***************************************************************************)
(* upload_to_google_sheets: a CSV file is put on a worksheet                *)
(***************************************************************************)
\* the last place of the name of place i among the field names
LastPlace(fieldnames, i) ==
    CHOOSE j \in DOMAIN fieldnames :
        /\ fieldnames[j] = fieldnames[i]
        /\ \A k \in DOMAIN fieldnames : fieldnames[k] = fieldnames[i] => k <= j

\* upload_food_delivery_to_sheets.py lines 56-59: row.get(h, '') of the dict
\* csv.DictReader makes of a row, dict(zip(fieldnames, row)) with the names
\* the row does not reach set to None
RowGet(fieldnames, row, i) ==
    IF LastPlace(fieldnames, i) <= Len(row) THEN row[LastPlace(fieldnames, i)] ELSE None

\* line 59: [row.get(h, '') for h in headers]
DataRow(fieldnames, row) == [i \in DOMAIN fieldnames |-> RowGet(fieldnames, row, i)]

\* lines 56-59: the rows after the field names, csv.DictReader skips the blank ones
ReadRows(fieldnames, rows) ==
    [k \in DOMAIN SelectSeq(rows, LAMBDA r : r # <<>>) |->
        DataRow(fieldnames, SelectSeq(rows, LAMBDA r : r # <<>>)[k])]

\* a worksheet that keeps its rows: a faulty variant of ClearWorksheet
KeepWorksheet(ws) == ws

\* line 78: worksheet.clear()
ClearWorksheet(ws) == <<>>

\* line 81: worksheet.append_row(values), after the last row
AppendRow(ws, values) == Append(ws, values)

\* line 85: worksheet.append_rows(values)
AppendRows(ws, values) == ws \o values

MaxCsvRows == 2

CsvHeaders == { <<<<"D","a","t","e">>, <<"R","e","s","t","a","u","r","a","n","t"," ","N","a","m","e">>, <<"T","o","t","a","l">>>>, <<<<"D","a","t","e">>, <<"N","o","t","e">>, <<"N","o","t","e">>>> }
CsvRecords ==
    { <<<<"2","0","2","6","-","0","1","-","3","1">>, <<"B","e","h","r","o","u","z"," ","B","i","r","y","a","n","i">>, <<"5","3","0",".","0">>>>,
      <<<<"2","0","2","6","-","0","2","-","0","5">>, <<"O","v","e","n"," ","S","t","o","r","y">>, <<"4","5",".","5">>>>,
      <<<<"2","0","2","6","-","0","2","-","0","5">>, <<"O","v","e","n"," ","S","t","o","r","y">>>>,
      <<<<"2","0","2","6","-","0","2","-","0","7">>, <<"O","v","e","n"," ","S","t","o","r","y">>, <<"4","5",".","5">>, <<"e","x","t","r","a">>>>,
      <<>> }
\* CSV files with a line of field names
CsvFiles == {<<h>> \o rs : h \in CsvHeaders, rs \in Seqs(CsvRecords, MaxCsvRows)}

\* the spreadsheet of the name there may be before the upload
ExistingSheets ==
    { [found |-> FALSE, rows |-> <<>>],
      [found |-> TRUE, rows |-> <<>>],
      [found |-> TRUE, rows |-> << <<<<"D","a","t","e">>, <<"T","o","t","a","l">>>>, <<<<"2","0","2","5","-","1","2","-","0","1">>, <<"9","9">>>>,
                                   <<<<"2","0","2","5","-","1","2","-","0","2">>, <<"1","2","0">>>>, <<<<"2","0","2","5","-","1","2","-","0","3">>, <<"7","5">>>>,
                                   <<<<"2","0","2","5","-","1","2","-","0","4">>, <<"3","1","0">>>> >>] }

\* lines 108-112: an exception ends the upload, False is returned
UploadFails ==
    /\ upc' = "returned"
    /\ uploaded' = "False"

\* lines 16-44: the credentials file is looked for
FindCredentials ==
    /\ upc = "credentials"
    /\ IF credentials
       THEN upc' = "authenticate" /\ UNCHANGED uploaded
       ELSE UploadFails
    /\ UNCHANGED <<credentials, existing, spreadsheet, csv_file, headers, csv_rows, worksheet,
                   formatted, calls>>
    /\ UNCHANGED <<parserVars, batchVars, analyzeVars, sheetVars, downloadVars>>

\* lines 48-51: the credentials are read, which may raise
Authenticate ==
    /\ upc = "authenticate"
    /\ \E ok \in BOOLEAN :
          IF ok THEN upc' = "read" /\ UNCHANGED uploaded ELSE UploadFails
    /\ UNCHANGED <<credentials, existing, spreadsheet, csv_file, headers, csv_rows, worksheet,
                   formatted, calls>>
    /\ UNCHANGED <<parserVars, batchVars, analyzeVars, sheetVars, downloadVars>>

\* lines 54-59: the CSV file is read
ReadCsv ==
    /\ upc = "read"
    /\ headers' = csv_file[1]
    /\ csv_rows' = ReadRows(csv_file[1], Tail(csv_file))
    /\ upc' = "create"
    /\ UNCHANGED <<credentials, existing, spreadsheet, csv_file, worksheet, formatted, calls,
                   uploaded>>
    /\ UNCHANGED <<parserVars, batchVars, analyzeVars, sheetVars, downloadVars>>

\* lines 62-65: a new spreadsheet is created, which may raise
CreateSpreadsheet ==
    /\ upc = "create"
    /\ \E ok \in BOOLEAN :
          IF ok
          THEN spreadsheet' = "created" /\ worksheet' = <<>> /\ formatted' = {} /\ upc' = "clear"
          ELSE upc' = "open" /\ UNCHANGED <<spreadsheet, worksheet, formatted>>
    /\ UNCHANGED <<credentials, existing, csv_file, headers, csv_rows, calls, uploaded>>
    /\ UNCHANGED <<parserVars, batchVars, analyzeVars, sheetVars, downloadVars>>

\* lines 66-72: the spreadsheet of the name is opened, False is returned when
\* there is none or the call raises
OpenSpreadsheet ==
    /\ upc = "open"
    /\ \E ok \in {existing.found, FALSE} :
          IF ok
          THEN /\ spreadsheet' = "opened" /\ worksheet' = existing.rows /\ upc' = "clear"
               /\ UNCHANGED uploaded
          ELSE UploadFails /\ UNCHANGED <<spreadsheet, worksheet>>
    /\ UNCHANGED <<credentials, existing, csv_file, headers, csv_rows, formatted, calls>>
    /\ UNCHANGED <<parserVars, batchVars, analyzeVars, sheetVars, downloadVars>>

\* lines 75-78: the first worksheet is fetched and cleared
Clear ==
    /\ upc = "clear"
    /\ \E ok \in BOOLEAN :
          IF ok
          THEN /\ worksheet' = ClearWorksheet(worksheet)
               /\ calls' = Append(calls, "clear")
               /\ upc' = "header"
               /\ UNCHANGED uploaded
          ELSE UploadFails /\ UNCHANGED <<worksheet, calls>>
    /\ UNCHANGED <<credentials, existing, spreadsheet, csv_file, headers, csv_rows, formatted>>
    /\ UNCHANGED <<parserVars, batchVars, analyzeVars, sheetVars, downloadVars>>

\* line 81: the field names are appended
AppendHeader ==
    /\ upc = "header"
    /\ \E ok \in BOOLEAN :
          IF ok
          THEN /\ worksheet' = AppendRow(worksheet, headers)
               /\ calls' = Append(calls, "append_row")
               /\ upc' = "rows"
               /\ UNCHANGED uploaded
          ELSE UploadFails /\ UNCHANGED <<worksheet, calls>>
    /\ UNCHANGED <<credentials, existing, spreadsheet, csv_file, headers, csv_rows, formatted>>
    /\ UNCHANGED <<parserVars, batchVars, analyzeVars, sheetVars, downloadVars>>

\* lines 84-85: the rows are appended when there are any
AppendData ==
    /\ upc = "rows"
    /\ IF csv_rows = <<>>
       THEN upc' = "format" /\ UNCHANGED <<worksheet, calls, uploaded>>
       ELSE \E ok \in BOOLEAN :
               IF ok
               THEN /\ worksheet' = AppendRows(worksheet, csv_rows)
                    /\ calls' = Append(calls, "append_rows")
                    /\ upc' = "format"
                    /\ UNCHANGED uploaded
               ELSE UploadFails /\ UNCHANGED <<worksheet, calls>>
    /\ UNCHANGED <<credentials, existing, spreadsheet, csv_file, headers, csv_rows, formatted>>
    /\ UNCHANGED <<parserVars, batchVars, analyzeVars, sheetVars, downloadVars>>

\* lines 88-91: the first row is set in bold on a colour
FormatHeader ==
    /\ upc = "format"
    /\ \E ok \in BOOLEAN :
          IF ok
          THEN /\ formatted' = formatted \cup {1}
               /\ calls' = Append(calls, "format")
               /\ upc' = "resize"
               /\ UNCHANGED uploaded
          ELSE UploadFails /\ UNCHANGED <<formatted, calls>>
    /\ UNCHANGED <<credentials, existing, spreadsheet, csv_file, headers, csv_rows, worksheet>>
    /\ UNCHANGED <<parserVars, batchVars, analyzeVars, sheetVars, downloadVars>>

\* lines 94-97: the columns are resized, an exception is passed over
AutoResize ==
    /\ upc = "resize"
    /\ \E ok \in BOOLEAN :
          calls' = IF ok THEN Append(calls, "columns_auto_resize") ELSE calls
    /\ upc' = "finish"
    /\ UNCHANGED <<credentials, existing, spreadsheet, csv_file, headers, csv_rows, worksheet,
                   formatted, uploaded>>
    /\ UNCHANGED <<parserVars, batchVars, analyzeVars, sheetVars, downloadVars>>

\* lines 100-106: the upload is reported, True is returned
Finish ==
    /\ upc = "finish"
    /\ uploaded' = "True"
    /\ upc' = "returned"
    /\ UNCHANGED <<credentials, existing, spreadsheet, csv_file, headers, csv_rows, worksheet,
                   formatted, calls>>
    /\ UNCHANGED <<parserVars, batchVars, analyzeVars, sheetVars, downloadVars>>

UploadInit ==
    /\ ParserIdle /\ BatchOff /\ AnalyzeOff /\ SheetOff /\ DownloadOff
    /\ upc = "credentials"
    /\ credentials \in BOOLEAN
    /\ existing \in ExistingSheets
    /\ spreadsheet = "none"
    /\ csv_file \in CsvFiles
    /\ headers = <<>>
    /\ csv_rows = <<>>
    /\ worksheet = <<>>
    /\ formatted = {}
    /\ calls = <<>>
    /\ uploaded = "nothing yet"

UploadNext ==
    \/ FindCredentials \/ Authenticate \/ ReadCsv \/ CreateSpreadsheet \/ OpenSpreadsheet
    \/ Clear \/ AppendHeader \/ AppendData \/ FormatHeader \/ AutoResize \/ Finish

UploadSpec == UploadInit /\ [][UploadNext]_vars

(***************************************************************************)
(* parse_invoices_to_sheet: the invoices of a folder are put on a new sheet *)
(***************************************************************************)
NotAvailable == <<"N","/","A">>

\* a field kept empty: a faulty variant of OrNA
KeepEmpty(s) == s

\* parse_invoices.py lines 189-191: invoice_data[...] or 'N/A'
OrNA(s) == IF s = <<>> THEN NotAvailable ELSE s

\* ", ".join(items)
RECURSIVE JoinItems(_)
JoinItems(items) ==
    IF Len(items) = 1 THEN items[1]
    ELSE items[1] \o <<","," ">> \o JoinItems(Tail(items))

\* line 186: the items joined, or 'N/A'
ItemsStr(items) == IF items = <<>> THEN NotAvailable ELSE JoinItems(items)

\* lines 188-194: the row of a record
InvoiceRow(invoice_data) ==
    << OrNA(invoice_data.date), OrNA(invoice_data.restaurant), OrNA(invoice_data.amount),
       ItemsStr(invoice_data.items), invoice_data.filename >>

\* line 154: f.lower().endswith('.pdf')
IsPdfName(f) == EndsWith(Lower(f), <<".","p","d","f">>)

\* line 137: the header row of the new sheet
SheetHeaders == <<<<"D","a","t","e">>, <<"R","e","s","t","a","u","r","a","n","t">>, <<"A","m","o","u","n","t">>, <<"I","t","e","m","s">>, <<"F","i","l","e","n","a","m","e">>>>

InvoiceNames == {<<"O","r","d","e","r","_","1",".","p","d","f">>, <<"O","r","d","e","r","_","4",".","P","D","F">>, <<"U","s","e","r","_","C","h","a","r","g","e","_","I","n","v","o","i","c","e","_","3",".","p","d","f">>}
OtherFileNames == {<<"n","o","t","e","s",".","t","x","t">>}

\* what the PDF files of the folder hold: a whole invoice, an invoice with
\* nothing but the merchant, a PDF without pages, a file that cannot be opened
InvoiceBatchPdfs ==
    { OnePage(<<LineDateFull, LineRestaurantParen, LineItemPaneer, LineItemNaan, LineTotal530>>),
      OnePage(<<LineOrderedFrom>>),
      [readable |-> TRUE, pages |-> <<>>],
      [readable |-> FALSE, pages |-> <<>>] }

\* folders of at most MaxFiles files
InvoiceFolders ==
    UNION { UNION { {[n \in E \cup O |-> IF n \in E THEN g[n] ELSE OtherPdf] : g \in [E -> InvoiceBatchPdfs]} :
                    O \in {X \in SUBSET OtherFileNames : Cardinality(E) + Cardinality(X) <= MaxFiles} } :
            E \in SUBSET InvoiceNames }

\* lines 150-160: the folder is listed, the names of PDF files are kept
InvoiceListFiles ==
    /\ ipc = "start"
    /\ IF ~folder_exists
       THEN ipc' = "returned" /\ UNCHANGED pdf_files
       ELSE \E listing \in Listings(DOMAIN folder) :
               /\ pdf_files' = SelectSeq(listing, IsPdfName)
               /\ ipc' = IF pdf_files' = <<>> THEN "returned" ELSE "sheet"
    /\ UNCHANGED <<folder_exists, rows_to_add, successful, failed, sheet>>
    /\ UNCHANGED <<parserVars, folder, next_file, all_data, invoked, skipped, bpc, analyzeVars,
                   uploadVars, downloadVars>>

\* lines 162-177 and 122-145: the sheet is created with its header row,
\* which may raise; the counts start at 0
CreateSheet ==
    /\ ipc = "sheet"
    /\ \E ok \in BOOLEAN :
          IF ok
          THEN /\ sheet' = <<SheetHeaders>>
               /\ rows_to_add' = <<>> /\ successful' = 0 /\ failed' = 0
               /\ next_file' = 1
               /\ ipc' = "loop"
          ELSE ipc' = "raised" /\ UNCHANGED <<sheet, rows_to_add, successful, failed, next_file>>
    /\ UNCHANGED <<parserVars, folder, pdf_files, all_data, invoked, skipped, bpc, folder_exists,
                   analyzeVars, uploadVars, downloadVars>>

\* lines 179-183: the next file is handed to extract_invoice_data
InvoiceCall ==
    /\ ipc = "loop" /\ next_file <= Len(pdf_files)
    /\ pdf_path' = PathJoin(FolderPath, pdf_files[next_file])
    /\ pdf' = folder[pdf_files[next_file]]
    /\ pc' = "open" /\ text' = <<>> /\ data' = Unset /\ result' = Unset
    /\ ipc' = "parse"
    /\ UNCHANGED <<script, batchVars, folder_exists, rows_to_add, successful, failed, sheet,
                   analyzeVars, uploadVars, downloadVars>>

\* lines 185-204: the record gives a row and counts as successful, None
\* counts as failed
InvoiceCollect ==
    /\ ipc = "parse" /\ pc = "done"
    /\ IF result # NoData
       THEN /\ rows_to_add' = Append(rows_to_add, InvoiceRow(result))
            /\ successful' = successful + 1
            /\ UNCHANGED failed
       ELSE failed' = failed + 1 /\ UNCHANGED <<rows_to_add, successful>>
    /\ next_file' = next_file + 1
    /\ pc' = "idle"
    /\ ipc' = "loop"
    /\ UNCHANGED <<script, pdf, pdf_path, text, data, result, folder, pdf_files, all_data,
                   invoked, skipped, bpc, folder_exists, sheet, analyzeVars, uploadVars,
                   downloadVars>>

\* lines 206-224: the rows are appended under the header row, which may raise
WriteRows ==
    /\ ipc = "loop" /\ next_file > Len(pdf_files)
    /\ IF rows_to_add = <<>>
       THEN ipc' = "returned" /\ UNCHANGED sheet
       ELSE \E ok \in BOOLEAN :
               IF ok
               THEN sheet' = sheet \o rows_to_add /\ ipc' = "returned"
               ELSE ipc' = "raised" /\ UNCHANGED sheet
    /\ UNCHANGED <<parserVars, batchVars, folder_exists, rows_to_add, successful, failed,
                   analyzeVars, uploadVars, downloadVars>>

SheetInit ==
    /\ script = "extract_invoice_data"
    /\ pdf = [readable |-> FALSE, pages |-> <<>>]
    /\ pdf_path = <<>>
    /\ pc = "idle"
    /\ text = <<>>
    /\ data = Unset
    /\ result = Unset
    /\ folder_exists \in BOOLEAN
    /\ folder \in (IF folder_exists THEN InvoiceFolders ELSE {<<>>})
    /\ pdf_files = <<>>
    /\ next_file = 0
    /\ all_data = <<>>
    /\ invoked = <<>>
    /\ skipped = <<>>
    /\ bpc = "off"
    /\ ipc = "start"
    /\ rows_to_add = <<>>
    /\ successful = 0
    /\ failed = 0
    /\ sheet = <<>>
    /\ AnalyzeOff /\ UploadOff /\ DownloadOff

SheetNext ==
    \/ InvoiceListFiles \/ CreateSheet \/ InvoiceCall \/ InvoiceExtractText \/ InvoiceParse
    \/ InvoiceCollect \/ WriteRows

SheetSpec == SheetInit /\ [][SheetNext]_vars

(***************************************************************************)
(* download_pdf_attachments and process_parts (download_gmail_pdfs.py),     *)
(* followed by the extraction run on the download folder                   *)
(***************************************************************************)
\* line 38: the characters sanitize_filename replaces by "_"
InvalidChars == {"<", ">", ":", "\"", "/", "\\", "|", "?", "*"}
Sanitize(filename) == [k \in DOMAIN filename |-> IF filename[k] \in InvalidChars THEN "_" ELSE filename[k]]

\* a path without the count: a faulty variant of AttachmentPath
PathWithoutCount(count, filename) == PathJoin(FolderPath, Sanitize(filename))

\* lines 132-133: os.path.join(download_folder, f"{pdf_count+1:04d}_{safe_filename}")
AttachmentPath(count, filename) ==
    PathJoin(FolderPath, NatStr(count + 1, 4) \o <<"_">> \o Sanitize(filename))

\* line 117: filename and filename.lower().endswith('.pdf')
IsPdfAttachment(part) == part.filename # <<>> /\ EndsWith(Lower(part.filename), <<".","p","d","f">>)

\* lines 93-96: the parts of the payload, or the payload itself
TopParts(payload) == IF payload.parts = <<>> THEN <<payload>> ELSE payload.parts

\* a call of process_parts on `parts` with the count it is given
Frame(parts, count) == [parts |-> parts, i |-> 1, stage |-> "nested", pdf_count |-> count]

\* the innermost call of process_parts and the part it is at
Top == frames[Len(frames)]
Part == Top.parts[Top.i]
SetTop(f) == [frames EXCEPT ![Len(frames)] = f]

\* the folder with the file written
WriteFile(dir, name, file_data) ==
    [n \in DOMAIN dir \cup {name} |-> IF n = name THEN file_data ELSE dir[n]]

MaxMessages == 2

\* a part that is a file (nested = FALSE, no key 'parts') and one that holds parts
Leaf(filename, attachment_id, file_data) ==
    [filename |-> filename, attachment_id |-> attachment_id, nested |-> FALSE, parts |-> <<>>,
     data |-> file_data]
Multipart(filename, attachment_id, parts) ==
    [filename |-> filename, attachment_id |-> attachment_id, nested |-> TRUE, parts |-> parts,
     data |-> OtherPdf]

BodyPart == Leaf(<<>>, FALSE, OtherPdf)
OrderPart == Leaf(<<"O","r","d","e","r","_","1",".","p","d","f">>, TRUE, OnePage(<<LineDateFull, LineRestaurant, LineTotal530>>))
UpperPart == Leaf(<<"O","r","d","e","r","_","4",".","P","D","F">>, TRUE, OnePage(<<LineDateAbbr, LineRestaurantParen, LineTotalColon>>))
ChargePart == Leaf(<<"U","s","e","r","_","C","h","a","r","g","e","_","I","n","v","o","i","c","e","_","3",".","p","d","f">>, TRUE, OtherPdf)
NotesPart == Leaf(<<"n","o","t","e","s",".","t","x","t">>, TRUE, OtherPdf)
InlinePart == Leaf(<<"O","r","d","e","r","_","1",".","p","d","f">>, FALSE, OtherPdf)
ColonPart == Leaf(<<"O","r","d","e","r",":","2",".","p","d","f">>, TRUE, OnePage(<<LineDateFull, LineRestaurant>>))

\* the payloads of messages: with parts, with parts in parts, a payload that
\* is the attachment itself, a part that is a PDF and holds a PDF
Payloads ==
    { Multipart(<<>>, FALSE, <<BodyPart, OrderPart>>),
      Multipart(<<>>, FALSE, <<BodyPart, Multipart(<<>>, FALSE, <<UpperPart, OrderPart>>)>>),
      OrderPart,
      Multipart(<<>>, FALSE, <<ChargePart, NotesPart, InlinePart>>),
      Multipart(<<>>, FALSE, <<ColonPart>>),
      Multipart(<<>>, FALSE, <<Multipart(<<"O","r","d","e","r","_","1",".","p","d","f">>, TRUE, <<UpperPart>>)>>),
      Multipart(<<>>, FALSE, <<>>) }

\* the messages a search gives
MessageLists == Seqs(Payloads, MaxMessages)

\* lines 102-103: an exception ends the download
DownloadFails ==
    /\ dpc' = "error"
    /\ frames' = <<>>

\* lines 58-74: the search, which may raise; pdf_count starts at 0
Search ==
    /\ dpc = "search"
    /\ \E ok \in BOOLEAN :
          IF ~ok THEN DownloadFails /\ UNCHANGED <<msg_idx, pdf_count>>
          ELSE IF messages = <<>>
               THEN dpc' = "no messages" /\ UNCHANGED <<msg_idx, pdf_count, frames>>
               ELSE dpc' = "messages" /\ msg_idx' = 1 /\ pdf_count' = 0 /\ UNCHANGED frames
    /\ UNCHANGED <<messages, written>>
    /\ UNCHANGED <<parserVars, batchVars, analyzeVars, uploadVars, sheetVars>>

\* lines 76-98: the message is fetched, which may raise, and process_parts is
\* called on its parts
GetMessage ==
    /\ dpc = "messages" /\ msg_idx <= Len(messages)
    /\ \E ok \in BOOLEAN :
          IF ok
          THEN frames' = <<Frame(TopParts(messages[msg_idx]), pdf_count)>> /\ dpc' = "parts"
          ELSE DownloadFails
    /\ UNCHANGED <<messages, msg_idx, pdf_count, written>>
    /\ UNCHANGED <<parserVars, batchVars, analyzeVars, uploadVars, sheetVars>>

\* lines 108-112: process_parts is called on the parts of the part, if any
CheckNested ==
    /\ dpc = "parts" /\ Top.i <= Len(Top.parts) /\ Top.stage = "nested"
    /\ frames' = IF Part.nested
                 THEN Append(frames, Frame(Part.parts, Top.pdf_count))
                 ELSE SetTop([Top EXCEPT !.stage = "own"])
    /\ UNCHANGED <<dpc, messages, msg_idx, pdf_count, written>>
    /\ UNCHANGED <<parserVars, batchVars, analyzeVars, uploadVars, sheetVars>>

\* lines 114-140: a PDF attachment is fetched, which may raise, and written
\* under the next count
SavePart ==
    /\ dpc = "parts" /\ Top.i <= Len(Top.parts) /\ Top.stage = "own"
    /\ IF IsPdfAttachment(Part) /\ Part.attachment_id
       THEN \E ok \in BOOLEAN :
               IF ok
               THEN /\ written' = Append(written, AttachmentPath(Top.pdf_count, Part.filename))
                    /\ folder' = WriteFile(folder, Basename(AttachmentPath(Top.pdf_count, Part.filename)),
                                           Part.data)
                    /\ frames' = SetTop([Top EXCEPT !.pdf_count = @ + 1, !.i = @ + 1,
                                                    !.stage = "nested"])
                    /\ UNCHANGED dpc
               ELSE DownloadFails /\ UNCHANGED <<written, folder>>
       ELSE /\ frames' = SetTop([Top EXCEPT !.i = @ + 1, !.stage = "nested"])
            /\ UNCHANGED <<dpc, written, folder>>
    /\ UNCHANGED <<messages, msg_idx, pdf_count>>
    /\ UNCHANGED <<parserVars, pdf_files, next_file, all_data, invoked, skipped, bpc, analyzeVars,
                   uploadVars, sheetVars>>

\* line 142 with lines 111 and 98: the count is returned to the caller
ReturnParts ==
    /\ dpc = "parts" /\ Top.i > Len(Top.parts)
    /\ IF Len(frames) = 1
       THEN /\ pdf_count' = Top.pdf_count
            /\ msg_idx' = msg_idx + 1
            /\ frames' = <<>>
            /\ dpc' = "messages"
       ELSE /\ frames' = [k \in 1..(Len(frames) - 1) |->
                             IF k = Len(frames) - 1
                             THEN [frames[k] EXCEPT !.pdf_count = Top.pdf_count, !.stage = "own"]
                             ELSE frames[k]]
            /\ UNCHANGED <<pdf_count, msg_idx, dpc>>
    /\ UNCHANGED <<messages, written>>
    /\ UNCHANGED <<parserVars, batchVars, analyzeVars, uploadVars, sheetVars>>

\* line 100: the count is reported
Complete ==
    /\ dpc = "messages" /\ msg_idx > Len(messages)
    /\ dpc' = "complete"
    /\ UNCHANGED <<messages, msg_idx, frames, pdf_count, written>>
    /\ UNCHANGED <<parserVars, batchVars, analyzeVars, uploadVars, sheetVars>>

\* extract_food_delivery_data.py lines 287-291: the extraction is run on the
\* folder of the downloads
StartExtraction ==
    /\ dpc = "complete" /\ bpc = "off"
    /\ bpc' = "list"
    /\ UNCHANGED <<parserVars, folder, pdf_files, next_file, all_data, invoked, skipped,
                   analyzeVars, uploadVars, sheetVars, downloadVars>>

PipelineInit ==
    /\ ParserIdle /\ BatchOff /\ AnalyzeOff /\ UploadOff /\ SheetOff
    /\ dpc = "search"
    /\ messages \in MessageLists
    /\ msg_idx = 0
    /\ frames = <<>>
    /\ pdf_count = 0
    /\ written = <<>>

PipelineNext ==
    \/ Search \/ GetMessage \/ CheckNested \/ SavePart \/ ReturnParts \/ Complete
    \/ StartExtraction \/ ListFiles \/ CallParser \/ ExtractText \/ ParseFields \/ Gate
    \/ Collect \/ Return \/ SortByDate \/ Report \/ NoDataExtracted

PipelineSpec == PipelineInit /\ [][PipelineNext]_vars

(***************************************************************************)
(* Properties                                                              *)
(***************************************************************************)
\* a record of extract_order_data is being or has been filled in
OrderParsed == script = "extract_order_data" /\ pc \in {"gate", "done"} /\ data # Unset

\* the lines of the text the parser read
TextLines == Split(text, NL)

\* the largest number of a set of numbers
Max(S) == CHOOSE k \in S : \A j \in S : j <= k

\* C1: extract_order_data returns a record only if date, restaurant_name and
\* total were all found, and that record is the one it filled in; if one of
\* the three is absent it returns None. Every record process_all_pdfs has
\* collected has its date, its restaurant name and its total.
C1_CompletenessGate ==
    /\ (script = "extract_order_data" /\ pc = "done") =>
          IF data = Unset THEN result = NoData
          ELSE /\ result # NoData =>
                    /\ result = data
                    /\ data.date \notin {None, <<>>}
                    /\ data.restaurant_name \notin {None, <<>>}
                    /\ data.total # NoTotal /\ data.total.n > 0
               /\ (data.date = None \/ data.restaurant_name = None \/ data.total = NoTotal)
                     => result = NoData
    /\ \A k \in DOMAIN all_data :
          /\ all_data[k].date \notin {None, <<>>}
          /\ all_data[k].restaurant_name \notin {None, <<>>}
          /\ all_data[k].total # NoTotal /\ all_data[k].total.n > 0

\* C1 (witness): in a batch that has collected a record, the parser has
\* returned None for an order that has its date and its restaurant but no total
C1_Witness ==
    /\ bpc = "parse" /\ pc = "done" /\ data # Unset
    /\ data.date = <<"2","0","2","6","-","0","1","-","3","1">> /\ data.restaurant_name = <<"B","e","h","r","o","u","z"," ","B","i","r","y","a","n","i">>
    /\ data.total = NoTotal
    /\ result = NoData
    /\ all_data # <<>>

\* the amount written on a line that starts with "Total" (leading blanks and
\* the case of the letters set aside) and goes on with a currency amount;
\* NoTotal for any other line
TotalLineAmount(line) ==
    CASE line = LineTotal15 -> Dec(15)
      [] line = LineTotal20 -> Dec(20)
      [] line = LineTotal530 -> Dec(530)
      [] line = LineTotalColon -> [n |-> 126253, e |-> 2]
      [] line = LineTotalLower -> [n |-> 455, e |-> 1]
      [] OTHER -> NoTotal

\* the places of the Total lines whose amount is greater than 20
QualifyingLines(lines) ==
    {k \in DOMAIN lines : /\ TotalLineAmount(lines[k]) # NoTotal
                          /\ TotalLineAmount(lines[k]).n > 20 * Pow10(TotalLineAmount(lines[k]).e)}

\* C2: in a document with Total lines the total of extract_order_data is the
\* amount of the bottommost Total line whose amount is greater than 20: a
\* Total line of 20 or less is never taken, nor a qualifying line above
\* another one; when none of the Total lines qualifies there is no total.
C2_BottommostTotal ==
    (OrderParsed /\ \E k \in DOMAIN TextLines : TotalLineAmount(TextLines[k]) # NoTotal) =>
        IF QualifyingLines(TextLines) = {} THEN data.total = NoTotal
        ELSE data.total = TotalLineAmount(TextLines[Max(QualifyingLines(TextLines))])

\* C2 (witness): three Total lines, 530 then 1,262.53 then 15: the total is
\* 1,262.53, the amount of the second line
C2_Witness ==
    /\ OrderParsed
    /\ text = Join(<<LineDateFull, LineRestaurant, LineTotal530, LineTotalColon, LineTotal15>>) \o <<NL>>
    /\ data.total = [n |-> 126253, e |-> 2]

\* the lines that open the items section, and those with a trailer keyword
HeaderLines == {LineHeader}
TrailerLines == {LineDelivery, LineTaxes}
\* the lines of the item shape, with the name, the quantity and the second
\* amount written on them
ItemFacts(line) ==
    CASE line = LineItemPaneer -> [name |-> <<"P","a","n","e","e","r"," ","T","i","k","k","a">>, qty |-> <<"2">>, price |-> <<"5","0","0">>]
      [] line = LineItemNaan -> [name |-> <<"B","u","t","t","e","r"," ","N","a","a","n">>, qty |-> <<"4">>, price |-> <<"1","1","6","0",".","5","0">>]
ItemLines == {LineItemPaneer, LineItemNaan}

\* the places of the lines captured by the table scan (its entries are the
\* ones with a quantity)
TableItemLines(d) ==
    {d.item_lines[q] : q \in {q \in DOMAIN d.items : Contains(d.items[q], <<"(","Q","t","y",":"," ">>)}}

\* line k is inside the section a header opened: no trailer line since
OpenSectionAt(lines, k) ==
    \E j \in 1..(k - 1) :
        /\ lines[j] \in HeaderLines
        /\ \A m \in (j + 1)..(k - 1) : lines[m] \notin TrailerLines

\* C3: once a header line has opened the items section, a header-like line
\* does not close it (an item line after it is captured), a line with a
\* trailer keyword closes it, and no line after a trailer line is captured as
\* a table item.
C3_TableScanTermination ==
    OrderParsed =>
        /\ \A k \in DOMAIN TextLines :
              (TextLines[k] \in ItemLines /\ OpenSectionAt(TextLines, k))
                 => k \in TableItemLines(data)
        /\ \A t \in DOMAIN TextLines :
              TextLines[t] \in TrailerLines
                 => \A k \in TableItemLines(data) : k < t

\* a date of the shape YYYY-MM-DD
IsIsoDate(s) ==
    /\ s # None
    /\ Len(s) = 10
    /\ \A k \in 1..10 : IF k \in {5, 8} THEN s[k] = "-" ELSE s[k] \in DigitSet

\* C4: after the sort of the batch, every record whose date is absent or kept
\* as written precedes every record whose date is normalized, and the
\* normalized dates are ascending.
C4_BatchSortOrder ==
    bpc \in {"sorted", "reported"} =>
        \A i, j \in DOMAIN all_data :
            /\ (~IsIsoDate(all_data[i].date) /\ IsIsoDate(all_data[j].date)) => i < j
            /\ (i < j /\ IsIsoDate(all_data[i].date) /\ IsIsoDate(all_data[j].date))
                  => ~StrLess(all_data[j].date, all_data[i].date)

\* the merchant name of a record of either parser
Merchant(r) == IF script = "extract_order_data" THEN r.restaurant_name ELSE r.restaurant
\* the text has an annotation in parentheses
HasParenthetical(s) ==
    \E i, j \in DOMAIN s : i < j /\ s[i] = "(" /\ s[j] = ")"

\* C5: the merchant name of every record of extract_invoice_data and of
\* extract_order_data has no annotation in parentheses and at most 100
\* characters.
C5_MerchantNormalized ==
    (pc = "done" /\ result # NoData) =>
        /\ ~HasParenthetical(Merchant(result))
        /\ Len(Merchant(result)) <= 100

\* the PDF opens and none of its pages gives any text
NoTextAtAll(p) == p.readable /\ \A k \in DOMAIN p.pages : p.pages[k] \in {None, <<>>}

\* C6: when the extraction gives no text at all, extract_order_data and
\* extract_invoice_data return None.
C6_EmptyExtractionFails ==
    (pc = "done" /\ NoTextAtAll(pdf)) => result = NoData

\* what extract_order_data makes of each path, in the order of the paths
Outcomes(paths, dir) ==
    [k \in DOMAIN paths |-> ExtractOrderData(dir[Basename(paths[k])], paths[k])]
\* the records among the outcomes, and the names of the paths without one
Records(outcomes) == SelectSeq(outcomes, LAMBDA r : r # NoData)
FailedNames(paths, outcomes) ==
    LET without == SelectSeq([k \in DOMAIN paths |-> [path |-> paths[k], none |-> outcomes[k] = NoData]],
                            LAMBDA x : x.none)
    IN [k \in DOMAIN without |-> Basename(without[k].path)]

\* C7: process_all_pdfs invokes the parser once on every file of the
\* directory whose name ends with .pdf and has no User_Charge_Invoice in it,
\* on no other file, in ascending order of the names; a file without a record
\* is reported and skipped, and the list returned is the records of the
\* other files in the order of processing.
C7_BatchIsolation ==
    /\ \A k \in DOMAIN invoked :
          /\ Basename(invoked[k]) \in DOMAIN folder
          /\ EndsWith(Basename(invoked[k]), <<".","p","d","f">>)
          /\ ~Contains(Basename(invoked[k]), <<"U","s","e","r","_","C","h","a","r","g","e","_","I","n","v","o","i","c","e">>)
          /\ \A j \in DOMAIN invoked : j < k => StrLess(Basename(invoked[j]), Basename(invoked[k]))
    /\ bpc \in {"main", "sorted", "reported", "no data"} =>
          \A n \in DOMAIN folder :
              (EndsWith(n, <<".","p","d","f">>) /\ ~Contains(n, <<"U","s","e","r","_","C","h","a","r","g","e","_","I","n","v","o","i","c","e">>))
                 => \E k \in DOMAIN invoked : Basename(invoked[k]) = n
    /\ bpc = "main" =>
          /\ all_data = Records(Outcomes(invoked, folder))
          /\ skipped = FailedNames(invoked, Outcomes(invoked, folder))

\* C7 (witness): of three files one is no order PDF, the first order PDF
\* gave no record and the second one gave the only record returned
C7_Witness ==
    /\ bpc = "main"
    /\ Cardinality(DOMAIN folder) = 3
    /\ Len(invoked) = 2
    /\ skipped = <<Basename(invoked[1])>>
    /\ Len(all_data) = 1 /\ all_data[1].file_name = Basename(invoked[2])

\* the words of a date as written: blanks and commas separate them
Words(s) ==
    SelectSeq(Split([k \in DOMAIN s |-> IF s[k] = "," THEN " " ELSE s[k]], " "),
              LAMBDA w : w # <<>>)
\* the number of the month of a full or abbreviated name, 0 for another word
MonthNumber(w) ==
    IF \E k \in 1..12 : Lower(w) \in {MonthsFull[k], MonthsAbbr[k]}
    THEN CHOOSE k \in 1..12 : Lower(w) \in {MonthsFull[k], MonthsAbbr[k]}
    ELSE 0
\* the words are a day of a month of a year and a time of the 12-hour clock
ValidDateWords(w) ==
    /\ Len(w) = 5
    /\ MonthNumber(w[2]) # 0
    /\ DigitsVal(w[1]) \in 1..DaysInMonth(DigitsVal(w[3]), MonthNumber(w[2]))
    /\ Len(Split(w[4], ":")) = 2
    /\ DigitsVal(Split(w[4], ":")[1]) \in 1..12
    /\ DigitsVal(Split(w[4], ":")[2]) \in 0..59
    /\ w[5] \in {<<"A","M">>, <<"P","M">>}
\* the date of the words as YYYY-MM-DD
IsoOfWords(w) ==
    NatStr(DigitsVal(w[3]), 4) \o <<"-">> \o NatStr(MonthNumber(w[2]), 2) \o <<"-">>
    \o NatStr(DigitsVal(w[1]), 2)
\* the date written on an Order Time line (after the label)
WrittenDate(line) == SubSeq(line, Len(<<"O","r","d","e","r"," ","T","i","m","e",":"," ">>) + 1, Len(line))
\* the places of the Order Time lines
DateLinesOf(lines) == {k \in DOMAIN lines : lines[k] \in DateLines}

\* the date C8 asks for, of the first Order Time line
ExpectedDate(as_written) ==
    IF ValidDateWords(Words(as_written)) THEN IsoOfWords(Words(as_written)) ELSE as_written

\* the smallest number of a set of numbers
Min(S) == CHOOSE k \in S : \A j \in S : k <= j

\* C8: the date of an Order Time line with a valid full or abbreviated month
\* name, a valid day and a valid time is stored as YYYY-MM-DD; a date that
\* parses under neither format is stored as written; without an Order Time
\* line the date is absent.
C8_DateNormalization ==
    OrderParsed =>
        IF DateLinesOf(TextLines) = {} THEN data.date = None
        ELSE data.date = ExpectedDate(WrittenDate(TextLines[Min(DateLinesOf(TextLines))]))

\* the entry of an item line: its name, its quantity and its second amount
ExpectedEntry(line) ==
    ItemFacts(line).name \o <<" ","(","Q","t","y",":"," ">> \o ItemFacts(line).qty \o <<","," ",Rupee>>
    \o ItemFacts(line).price \o <<")">>

\* C9: every line of the item shape inside the open items section gives
\* exactly one entry, with its name, its quantity and its second amount (the
\* line total), and the entries are in the order of the lines.
C9_TableItems ==
    OrderParsed =>
        /\ \A k \in DOMAIN TextLines :
              (TextLines[k] \in ItemLines /\ OpenSectionAt(TextLines, k))
                 => /\ Cardinality({q \in DOMAIN data.items : data.item_lines[q] = k}) = 1
                    /\ \A q \in DOMAIN data.items :
                          data.item_lines[q] = k => data.items[q] = ExpectedEntry(TextLines[k])
        /\ \A p, q \in DOMAIN data.items : p < q => data.item_lines[p] < data.item_lines[q]

\* C9 (witness): a table of two item lines; the entries are those of the
\* lines in their order, the second with the line total 1,160.50 without
\* its comma
C9_Witness ==
    /\ OrderParsed
    /\ data.items = <<<<"P","a","n","e","e","r"," ","T","i","k","k","a"," ","(","Q","t","y",":"," ","2",","," ",Rupee,"5","0","0",")">>, <<"B","u","t","t","e","r"," ","N","a","a","n"," ","(","Q","t","y",":"," ","4",","," ",Rupee,"1","1","6","0",".","5","0",")">>>>
    /\ data.item_lines = <<5, 6>>

\* the totals of the rows in hundredths, added up
RECURSIVE Hundredths(_)
Hundredths(rows) ==
    IF rows = <<>> THEN 0
    ELSE rows[Len(rows)].total.n * Pow10(2 - rows[Len(rows)].total.e)
         + Hundredths(SubSeq(rows, 1, Len(rows) - 1))

\* C10: analyze_data ends without an exception, also on the empty list,
\* where it computes nothing; for the other lists the total spending is the
\* sum of the totals, the number of orders the length of the list and the
\* average the total divided by the number.
C10_SummaryArithmetic ==
    /\ raised = "none" /\ apc # "raised"
    /\ all_data = <<>> => (apc \in {"start", "returned"} /\ stats = NoStats)
    /\ (apc = "returned" /\ all_data # <<>>) =>
          /\ stats.num_orders = Len(all_data)
          /\ stats.total_spending.n * Pow10(2 - stats.total_spending.e) = Hundredths(all_data)
          /\ stats.avg_order.num * Len(all_data) * 100 = Hundredths(all_data) * stats.avg_order.den

\* C10 (witness): three orders of 530, 1,262.53 and 45.5: the analysis is
\* done, the total is 1,838.03 and the average no whole number
C10_Witness ==
    /\ apc = "returned"
    /\ Len(all_data) = 3
    /\ stats.total_spending = [n |-> 183803, e |-> 2]
    /\ stats.avg_order.den = 300

\* the rows of the CSV file that are records: those after the field names
\* that are not blank lines
CsvRecordsOf(file) == SelectSeq(Tail(file), LAMBDA r : r # <<>>)

\* a record with a cell for each field name, the names all different
WellFormed(fieldnames, record) ==
    /\ Len(record) = Len(fieldnames)
    /\ \A i, j \in DOMAIN fieldnames : fieldnames[i] = fieldnames[j] => i = j

\* the calls that put content or format on the worksheet
SinkCalls == SelectSeq(calls, LAMBDA c : c # "columns_auto_resize")

\* C11: in a run of upload_to_google_sheets that returns True the worksheet
\* is cleared, then given the header row, then the data rows (when the CSV
\* has records), then the header row is formatted; the worksheet ends as the
\* CSV header followed by one row per CSV record in the order of the CSV,
\* a record with a cell for each column as it is written, and nothing of
\* the rows there were before.
C11_SinkProtocol ==
    uploaded = "True" =>
        /\ SinkCalls = IF CsvRecordsOf(csv_file) = <<>>
                       THEN <<"clear", "append_row", "format">>
                       ELSE <<"clear", "append_row", "append_rows", "format">>
        /\ Len(worksheet) = 1 + Len(CsvRecordsOf(csv_file))
        /\ worksheet[1] = csv_file[1]
        /\ \A k \in DOMAIN CsvRecordsOf(csv_file) :
              /\ Len(worksheet[k + 1]) = Len(csv_file[1])
              /\ WellFormed(csv_file[1], CsvRecordsOf(csv_file)[k])
                    => worksheet[k + 1] = CsvRecordsOf(csv_file)[k]
        /\ 1 \in formatted

\* an upload onto a spreadsheet that had more rows than the CSV, the CSV with
\* two records, one of them well formed
C11_Witness ==
    /\ uploaded = "True"
    /\ spreadsheet = "opened"
    /\ Len(existing.rows) > 3
    /\ Len(CsvRecordsOf(csv_file)) = 2
    /\ \E k \in 1..2 : WellFormed(csv_file[1], CsvRecordsOf(csv_file)[k])

\* the names of the PDF files of the folder, whatever the case of .pdf
PdfNames == {n \in DOMAIN folder : EndsWith(Lower(n), <<".","p","d","f">>)}

\* the files of the loop that extract_invoice_data reads without an
\* exception, in the order of the loop
ReadableFiles == SelectSeq(pdf_files, LAMBDA n : folder[n].readable)

\* what the parser finds in a file
Found(n) == ExtractInvoiceData(folder[n], PathJoin(FolderPath, n))

\* a field as the sheet shows it
Shown(field) == IF field = <<>> THEN <<"N","/","A">> ELSE field

\* parse_invoices_to_sheet has gone through its files and returned
SheetDone == ipc = "returned" /\ folder_exists /\ pdf_files # <<>>

\* C12: when parse_invoices_to_sheet has gone through the folder, every PDF
\* file that was read without an exception has exactly one row, in the order
\* of the loop, with N/A for each of date, restaurant, amount and items that
\* is absent; the files that raised have no row; successful + failed is the
\* number of PDF files and the number of rows appended is successful.
C12_PlaceholderAccounting ==
    SheetDone =>
        /\ successful + failed = Cardinality(PdfNames)
        /\ Len(sheet) - 1 = successful
        /\ successful = Len(ReadableFiles)
        /\ \A k \in DOMAIN ReadableFiles :
              /\ sheet[k + 1][1] = Shown(Found(ReadableFiles[k]).date)
              /\ sheet[k + 1][2] = Shown(Found(ReadableFiles[k]).restaurant)
              /\ sheet[k + 1][3] = Shown(Found(ReadableFiles[k]).amount)
              /\ (Found(ReadableFiles[k]).items = <<>>) <=> (sheet[k + 1][4] = <<"N","/","A">>)
              /\ sheet[k + 1][5] = ReadableFiles[k]
              /\ \A c \in 1..5 : sheet[k + 1][c] # <<>>

\* a folder with an invoice that has no date, no amount and no items, a whole
\* invoice and a file that raised
C12_Witness ==
    /\ SheetDone
    /\ failed = 1
    /\ successful = 2
    /\ \E k \in 2..3 : sheet[k][1] = <<"N","/","A">> /\ sheet[k][3] = <<"N","/","A">> /\ sheet[k][4] = <<"N","/","A">>
    /\ \E k \in 2..3 : \A c \in 1..4 : sheet[k][c] # <<"N","/","A">>

\* the amount of a Total that is written after other words of its line
MidLineAmount(line) == IF line = LineGrandTotal THEN Dec(530) ELSE NoTotal

\* the places of the lines with such a Total greater than 20
MidLineTotals(lines) == {k \in DOMAIN lines : MidLineAmount(lines[k]) # NoTotal}

\* C13: when no line that starts with Total has an amount greater than 20,
\* extract_order_data searches the whole text without the anchor, so that a
\* "Total <amount>" greater than 20 written after other words of its line
\* is taken as the total.
C13_TotalFallback ==
    (OrderParsed /\ QualifyingLines(TextLines) = {} /\ MidLineTotals(TextLines) # {}) =>
        \E k \in MidLineTotals(TextLines) : data.total = MidLineAmount(TextLines[k])

\* an entry of the table scan: it has a quantity
HasQuantity(entry) == Contains(entry, <<"(","Q","t","y",":"," ">>)

\* the lines the fallback tier takes, with the name and the amount it reads:
\* they have a currency marker, none of the words tax, delivery, platform,
\* packaging, total and free in any case, and more than 3 characters before
\* the first marker
FallbackFacts(line) ==
    CASE line = LineDosa -> [name |-> <<"M","a","s","a","l","a"," ","D","o","s","a">>, price |-> <<"1","2","0">>]
      [] line = LineItemPaneer -> [name |-> <<"P","a","n","e","e","r"," ","T","i","k","k","a"," ","2">>, price |-> <<"2","5","0">>]
      [] line = LineItemNaan -> [name |-> <<"B","u","t","t","e","r"," ","N","a","a","n"," ","4">>, price |-> <<"4","0">>]
FallbackLines == {LineDosa, LineItemPaneer, LineItemNaan}

\* the entry of the fallback tier for a line
FallbackEntry(line) ==
    FallbackFacts(line).name \o <<" ","(",Rupee>> \o FallbackFacts(line).price \o <<")">>

\* C14: the items of a record are all entries of the table scan or all
\* entries of the fallback tier; the fallback tier runs exactly when the
\* table scan captured nothing: with an item line in the open items section
\* no entry is a fallback entry, and without any table entry every line the
\* fallback tier takes has its entry; a fallback entry comes only from a
\* line with a currency marker, none of the six keywords and more than 3
\* characters before the first marker.
C14_TwoTierItems ==
    OrderParsed =>
        /\ \A p, q \in DOMAIN data.items :
              HasQuantity(data.items[p]) <=> HasQuantity(data.items[q])
        /\ (\E k \in DOMAIN TextLines : TextLines[k] \in ItemLines /\ OpenSectionAt(TextLines, k))
              => \A q \in DOMAIN data.items : HasQuantity(data.items[q])
        /\ (\A q \in DOMAIN data.items : ~HasQuantity(data.items[q]))
              => \A k \in DOMAIN TextLines :
                    TextLines[k] \in FallbackLines
                       => \E q \in DOMAIN data.items :
                             /\ data.item_lines[q] = k
                             /\ data.items[q] = FallbackEntry(TextLines[k])
        /\ \A q \in DOMAIN data.items :
              ~HasQuantity(data.items[q])
                 => /\ TextLines[data.item_lines[q]] \in FallbackLines
                    /\ Contains(TextLines[data.item_lines[q]], <<Rupee>>)
                    /\ Len(Split(TextLines[data.item_lines[q]], Rupee)[1]) > 3

\* a document without a table: of its lines Masala Dosa, Tea (3 letters) and
\* Free Coke (a keyword) the fallback tier takes the first only
C14_Witness ==
    /\ OrderParsed
    /\ text = Join(<<LineDateFull, LineRestaurant, LineDosa, LineTea, LineFree, LineTotal530>>) \o <<NL>>
    /\ data.items = <<<<"M","a","s","a","l","a"," ","D","o","s","a"," ","(",Rupee,"1","2","0",")">>>>
    /\ data.item_lines = <<3>>

\* extract_invoice_data has filled in its record
InvoiceParsed == script = "extract_invoice_data" /\ pc = "done" /\ data # Unset

\* the lines of the text are among those of DispatchLines
DispatchText == \A k \in DOMAIN TextLines : TextLines[k] \in DispatchLines

\* the text has the line
HasLine(line) == \E k \in DOMAIN TextLines : TextLines[k] = line

\* C15: the date of extract_invoice_data is that of the labelled Order Time
\* line when there is one, wherever the other dates are; without it that of
\* the bare day-month-year date; without it the numeric date; without any it
\* is absent. The merchant is that of Restaurant Name, without it that of
\* Ordered from, without it that of Delivery from, without any it is absent.
C15_OrderedDispatch ==
    (InvoiceParsed /\ DispatchText) =>
        /\ data.date = IF HasLine(LineDateAbbr) THEN <<"5"," ","F","e","b"," ","2","0","2","6">>
                       ELSE IF HasLine(LineBareDate) THEN <<"3"," ","M","a","r"," ","2","0","2","6">>
                       ELSE IF HasLine(LineNumericDate) THEN <<"0","4","/","0","3","/","2","0","2","6">>
                       ELSE <<>>
        /\ data.restaurant = IF HasLine(LineRestaurant) THEN <<"B","e","h","r","o","u","z"," ","B","i","r","y","a","n","i">>
                             ELSE IF HasLine(LineOrderedFrom) THEN <<"O","v","e","n"," ","S","t","o","r","y">>
                             ELSE IF HasLine(LineDeliveryFrom) THEN <<"W","o","w"," ","M","o","m","o">>
                             ELSE <<>>

\* an invoice with a bare date above its Order Time line and Delivery from
\* above Restaurant Name: the labelled date and the named restaurant are taken
C15_Witness ==
    /\ InvoiceParsed
    /\ text = Join(<<LineBareDate, LineDeliveryFrom, LineDateAbbr, LineRestaurant>>)
    /\ data.date = <<"5"," ","F","e","b"," ","2","0","2","6">>
    /\ data.restaurant = <<"B","e","h","r","o","u","z"," ","B","i","r","y","a","n","i">>

\* the count of the call of process_parts that is running, or of
\* download_pdf_attachments between two messages
RunningCount == IF frames # <<>> THEN frames[Len(frames)].pdf_count ELSE pdf_count

\* the download is under way or complete
Downloading == dpc \in {"messages", "parts", "complete"}

\* the part process_parts is about to look at the file name of
AtOwnPart ==
    /\ dpc = "parts"
    /\ frames[Len(frames)].i <= Len(frames[Len(frames)].parts)
    /\ frames[Len(frames)].stage = "own"
OwnPart == frames[Len(frames)].parts[frames[Len(frames)].i]

\* a part whose file name ends in .pdf, in any case, and has an attachmentId
SavedKind(part) ==
    /\ Len(part.filename) >= 4
    /\ Lower(SubSeq(part.filename, Len(part.filename) - 3, Len(part.filename))) = <<".","p","d","f">>
    /\ part.attachment_id

\* C16: in a run of download_pdf_attachments the running pdf_count is the
\* number of files written so far, no two files are written to the same
\* path, and the count reported at the end is the number of different files
\* written; a step never lowers the count and raises it by one exactly when
\* it writes a file; a part whose file name does not end in .pdf or that has
\* no attachmentId writes nothing and leaves the count as it is.
C16_CountingAndNaming ==
    /\ [](/\ Downloading => RunningCount = Len(written)
          /\ \A i, j \in DOMAIN written : written[i] = written[j] => i = j
          /\ dpc = "complete" => pdf_count = Cardinality({written[k] : k \in DOMAIN written}))
    /\ [][/\ Downloading' =>
               /\ RunningCount' >= RunningCount
               /\ RunningCount' - RunningCount = Len(written') - Len(written)
               /\ RunningCount' - RunningCount \in {0, 1}
          /\ (AtOwnPart /\ ~SavedKind(OwnPart)) =>
               (written' = written /\ RunningCount' = RunningCount)]_vars

\* a complete run that wrote the same file name twice, from a part inside a
\* part and from a second message, and passed over a part without attachmentId
C16_Witness ==
    /\ dpc = "complete"
    /\ pdf_count = 3
    /\ Len(messages) = 2
    /\ \E i, j \in DOMAIN written :
          /\ i # j
          /\ SubSeq(written[i], Len(written[i]) - 10, Len(written[i])) = <<"O","r","d","e","r","_","1",".","p","d","f">>
          /\ SubSeq(written[j], Len(written[j]) - 10, Len(written[j])) = <<"O","r","d","e","r","_","1",".","p","d","f">>

\* the extraction has listed the folder of the downloads
FolderListed == dpc = "complete" /\ bpc \notin {"off", "list"}

\* C17: every attachment the downloader has written whose name has no
\* User_Charge_Invoice is among the files process_all_pdfs takes from the
\* folder, and has been handed to the parser when process_all_pdfs returns.
C17_PipelineCoverage ==
    \A k \in DOMAIN written :
        ~Contains(written[k], <<"U","s","e","r","_","C","h","a","r","g","e","_","I","n","v","o","i","c","e">>) =>
            /\ FolderListed => \E p \in DOMAIN pdf_files : pdf_files[p] = written[k]
            /\ (dpc = "complete" /\ bpc \in {"main", "sorted", "reported", "no data"})
                  => \E p \in DOMAIN invoked : invoked[p] = written[k]
====
